---- MODULE Spec2Model ----
(***************************************************************************)
(* A model of sxgo, the Sypex Geo (SxGeo v2.2) database reader.            *)
(*                                                                         *)
(* A database file is a 40-byte header, the pack-format blob, the byte     *)
(* index, the main index, the DB blocks, the regions section and the       *)
(* cities section.  The engine (type SxGeo) is built by New and queried by *)
(* Get, GetCountry, GetCountryID, GetCity, GetCityFull and About; Close    *)
(* releases the file handle.                                               *)
(*                                                                         *)
(* Bytes are the integers 0..255.  A Go slice s[lo:hi] is Slice(s, lo, hi).*)
(* Unsigned 32-bit arithmetic is taken modulo 2^32 (U32Add ..).               *)
(***************************************************************************)
EXTENDS Integers, Sequences, FiniteSets, TLC

\* ------------------------------------------------------------------------
\* Bytes, slices and fixed-width integers
\* ------------------------------------------------------------------------

\* Go's s[lo:hi] on a 0-based slice (the callers keep 0 <= lo <= hi <= len).
Slice(s, lo, hi) == SubSeq(s, lo + 1, hi)

\* Go's s[i] on a 0-based slice.
At(s, i) == s[i + 1]

\* binary.BigEndian.Uint16 (and any width whose value stays below 2^31).
RECURSIVE BigEndian(_)
BigEndian(b) ==
    IF Len(b) = 0 THEN 0
    ELSE BigEndian(SubSeq(b, 1, Len(b) - 1)) * 256 + b[Len(b)]

\* binary.LittleEndian.Uint16 (and any width whose value stays below 2^31).
RECURSIVE LittleEndian(_)
LittleEndian(b) ==
    IF Len(b) = 0 THEN 0
    ELSE b[1] + 256 * LittleEndian(SubSeq(b, 2, Len(b)))

\* The w big-endian bytes of x.
RECURSIVE PutBigEndian(_, _)
PutBigEndian(x, w) ==
    IF w = 0 THEN <<>>
    ELSE Append(PutBigEndian(x \div 256, w - 1), x % 256)

\* The w little-endian bytes of x (how a record field is stored).
RECURSIVE PutLittleEndian(_, _)
PutLittleEndian(x, w) ==
    IF w = 0 THEN <<>>
    ELSE <<x % 256>> \o PutLittleEndian(x \div 256, w - 1)

\* The concatenation of a sequence of sequences.
RECURSIVE Flatten(_)
Flatten(ss) ==
    IF Len(ss) = 0 THEN <<>> ELSE ss[1] \o Flatten(Tail(ss))

\* The concatenation of a sequence of sequences of w elements each.
FlattenFixed(ss, w) ==
    [i \in 1..(Len(ss) * w) |-> ss[((i - 1) \div w) + 1][((i - 1) % w) + 1]]

(***************************************************************************)
(* uint32 and int64 values.  TLC's integers are 32-bit signed, so          *)
(* a Go uint32 (and an int64 file offset) is the pair <<hi, lo>> standing  *)
(* for hi * 2^16 + lo with 0 <= lo < 2^16.  A uint32 has hi < 2^16; an     *)
(* int64 offset (never negative in this program) may have a larger hi.     *)
(* Equal numbers are equal pairs.                                          *)
(***************************************************************************)
Limb == 256 * 256

Big(n) == <<n \div Limb, n % Limb>>          \* of an integer 0 <= n < 2^31
BigZero == <<0, 0>>
BigOne == <<0, 1>>

\* The integer a pair stands for; only for pairs known to be below 2^31.
ToInt(x) == x[1] * Limb + x[2]

Lt(a, b) == a[1] < b[1] \/ (a[1] = b[1] /\ a[2] < b[2])
Le(a, b) == a = b \/ Lt(a, b)
Gt(a, b) == Lt(b, a)
Ge(a, b) == Le(b, a)

\* a + b and a - b (for a >= b) without wrap-around: int64 arithmetic.
Add(a, b) == <<a[1] + b[1] + ((a[2] + b[2]) \div Limb), (a[2] + b[2]) % Limb>>
Sub(a, b) == <<a[1] - b[1] + ((a[2] - b[2]) \div Limb), (a[2] - b[2]) % Limb>>
\* a * m for a small multiplier m (a block size), without wrap-around.
MulSmall(a, m) == <<a[1] * m + ((a[2] * m) \div Limb), (a[2] * m) % Limb>>

\* uint32 arithmetic: the result modulo 2^32.
Wrap32(x) == <<x[1] % Limb, x[2]>>
U32Add(a, b) == Wrap32(Add(a, b))
U32Sub(a, b) == Wrap32(Sub(a, b))
\* a * m modulo 2^32 for a uint32 a and a multiplier 0 <= m < 2^16.
U32Mul(a, m) ==
    LET ml == m % 256
        mh == m \div 256
        P  == a[2] * ml
        Q  == a[2] * mh
        T  == Q + (P \div 256)
        lo == (T % 256) * 256 + (P % 256)
        hi == (a[1] * ml + ((a[1] * mh) % 256) * 256 + (T \div 256)) % Limb
    IN  <<hi, lo>>
\* a / d (integer division) for a uint32 a and a divisor 0 < d < 2^16.
U32Div(a, d) ==
    LET q1 == a[1] \div d
        r1 == a[1] % d
        t1 == r1 * 256 + (a[2] \div 256)
        q2 == t1 \div d
        r2 == t1 % d
        t2 == r2 * 256 + (a[2] % 256)
        q3 == t2 \div d
    IN  <<q1, q2 * 256 + q3>>

\* binary.BigEndian.Uint32 of four bytes.
BigEndian32(b) == <<b[1] * 256 + b[2], b[3] * 256 + b[4]>>
\* binary.LittleEndian.Uint32 of four bytes.
LittleEndian32(b) == <<b[4] * 256 + b[3], b[2] * 256 + b[1]>>
\* binary.BigEndian.PutUint32.
PutBigEndian32(x) == <<x[1] \div 256, x[1] % 256, x[2] \div 256, x[2] % 256>>

\* ------------------------------------------------------------------------
\* Constants of the package
\* ------------------------------------------------------------------------

ModeFile == 0
ModeMemory == 1
ModeBatch == 2

dbSig == <<83, 120, 71>>      \* "SxG"
dbHeaderLen == 40
dbBlockLenOffset == 3

\* The error values the model tells apart.  Nil is "no error".
Nil == "nil"
errReservedRange == "errReservedRange"
errInvalidIP == "invalid IPv4 address"
errEOF == "io.EOF"
errIO == "read error"
errUnexpectedEOF == "io.ErrUnexpectedEOF"
\* Not an error value: the marker of a run-time panic (see NumPanic).
errPanic == "panic: runtime error: slice bounds out of range"
errClose == "sxgo: error closing database file"

\* ------------------------------------------------------------------------
\* Header (type header, parseHeader)
\* ------------------------------------------------------------------------

\* parseHeader: the header of a 40-byte slice, or ok = FALSE.
HeaderFields(data) ==
    [ version      |-> At(data, 3),
      timestamp    |-> BigEndian32(Slice(data, 4, 8)),
      dbType       |-> At(data, 8),
      charset      |-> At(data, 9),
      byteIndexLen |-> At(data, 10),
      mainIndexLen |-> BigEndian(Slice(data, 11, 13)),
      rangeBlocks  |-> BigEndian(Slice(data, 13, 15)),
      dbItems      |-> BigEndian32(Slice(data, 15, 19)),
      idLen        |-> At(data, 19),
      maxRegion    |-> BigEndian(Slice(data, 20, 22)),
      maxCity      |-> BigEndian(Slice(data, 22, 24)),
      regionSize   |-> BigEndian32(Slice(data, 24, 28)),
      citySize     |-> BigEndian32(Slice(data, 28, 32)),
      maxCountry   |-> BigEndian(Slice(data, 32, 34)),
      countrySize  |-> BigEndian32(Slice(data, 34, 38)),
      packSize     |-> BigEndian(Slice(data, 38, 40)) ]

\* parseHeader without its check of mainIndexLen.
parseHeader_AnyMainIndexLen(data) ==
    IF Len(data) < dbHeaderLen \/ Slice(data, 0, 3) # dbSig
    THEN [ok |-> FALSE]
    ELSE LET h == HeaderFields(data) IN
         IF \/ h.byteIndexLen = 0 \/ h.rangeBlocks = 0
            \/ h.dbItems = BigZero \/ h.idLen = 0 \/ h.idLen > 4
         THEN [ok |-> FALSE]
         ELSE [ok |-> TRUE, h |-> h]

parseHeader(data) ==
    IF Len(data) < dbHeaderLen \/ Slice(data, 0, 3) # dbSig
    THEN [ok |-> FALSE]
    ELSE LET h == HeaderFields(data) IN
         IF \/ h.byteIndexLen = 0 \/ h.mainIndexLen = 0 \/ h.rangeBlocks = 0
            \/ h.dbItems = BigZero \/ h.idLen = 0 \/ h.idLen > 4
         THEN [ok |-> FALSE]
         ELSE [ok |-> TRUE, h |-> h]

\* ------------------------------------------------------------------------
\* The database file and positioned reads (os.File.ReadAt, io.ReadFull)
\* ------------------------------------------------------------------------
(***************************************************************************)
(* A file is [hdr, pack, body]: hdr is its first (up to 40) bytes; pack is *)
(* the pack-format blob as New splits it (a sequence of formats; the blob  *)
(* itself is the header.packSize bytes after the header); body is every    *)
(* byte                                                                    *)
(* after the blob: byte index, main index, DB blocks, regions, cities.     *)
(* A format is the sequence of its "/"-separated parts, the empty format   *)
(* being <<>>; a part "T:country_id" is [tf |-> <<"T">>, name |->          *)
(* "country_id", colon |-> TRUE], tf being the characters before the       *)
(* colon.                                                                  *)
(***************************************************************************)

\* The offset of body's first byte in the file.
BodyStart(file) ==
    Len(file.hdr) + (IF Len(file.hdr) < dbHeaderLen THEN 0
                     ELSE BigEndian(Slice(file.hdr, 38, 40)))

FileSize(file) == BodyStart(file) + Len(file.body)

\* f.ReadAt(buf, off) for a buffer of want bytes (a pair) at offset off (a
\* pair) at or after the body's start: the bytes read and io.EOF when fewer
\* than want were there.  fail is an I/O error of the device.
ReadAt(file, want, off, fail) ==
    IF fail THEN [data |-> <<>>, err |-> errIO]
    ELSE IF Ge(off, Big(FileSize(file))) THEN [data |-> <<>>, err |-> errEOF]
    ELSE LET o     == ToInt(off) - BodyStart(file)
             avail == Len(file.body) - o
             n     == IF Ge(want, Big(avail)) THEN avail ELSE ToInt(want)
         IN  [data |-> Slice(file.body, o, o + n),
              err  |-> IF Lt(Big(n), want) THEN errEOF ELSE Nil]

\* ------------------------------------------------------------------------
\* New and Close (type SxGeo)
\* ------------------------------------------------------------------------

\* mode & bit, for a one-bit mask.
BitAnd(mode, bit) == IF bit = 0 THEN 0 ELSE ((mode \div bit) % 2) * bit

\* The i-th big-endian uint32 of a raw index.
RawIndexAt(raw, i) == BigEndian32(Slice(raw, i * 4, i * 4 + 4))

\* New, once the header is parsed and the section offsets are computed:
\* the indexes and, in memory mode, the sections are read.
NewLoaded(file, memoryMode, batchMode, h, dbBegin, dbSize, regionsBegin, citiesBegin) ==
    LET blockSize     == dbBlockLenOffset + h.idLen
        byteIndexSize == h.byteIndexLen * 4
        mainIndexSize == h.mainIndexLen * 4
        useParsedIndexes == batchMode \/ memoryMode
        rawBIdx       == Slice(file.body, 0, byteIndexSize)
        rawMIdx       == Slice(file.body, byteIndexSize, byteIndexSize + mainIndexSize)
        fileEnd       == Big(FileSize(file))
        \* io.ReadFull of each section succeeds when the file holds it
        dbThere       == Le(regionsBegin, fileEnd)
        regionsThere  == Le(citiesBegin, fileEnd)
        citiesThere   == Le(Add(citiesBegin, h.citySize), fileEnd)
        bodyOff(x)    == ToInt(x) - BodyStart(file)
    IN
    IF h.packSize = 0 /\ h.maxCity > 0 THEN [ok |-> FALSE]
    ELSE IF Len(file.body) < byteIndexSize + mainIndexSize THEN [ok |-> FALSE]
    ELSE IF memoryMode /\ ~dbThere THEN [ok |-> FALSE]
    ELSE IF memoryMode /\ h.regionSize # BigZero /\ ~regionsThere THEN [ok |-> FALSE]
    ELSE IF memoryMode /\ h.citySize # BigZero /\ ~citiesThere THEN [ok |-> FALSE]
    ELSE
    [ok |-> TRUE,
     s  |-> [ f            |-> IF memoryMode THEN "nil" ELSE "open",
              header       |-> h,
              packFormats  |-> IF h.packSize > 0 THEN file.pack ELSE <<>>,
              dbBegin      |-> dbBegin,
              regionsBegin |-> regionsBegin,
              citiesBegin  |-> citiesBegin,
              blockSize    |-> blockSize,
              memoryMode   |-> memoryMode,
              batchMode    |-> batchMode,
              byteIndexStr |-> IF useParsedIndexes THEN <<>> ELSE rawBIdx,
              mainIndexStr |-> IF useParsedIndexes THEN <<>> ELSE rawMIdx,
              byteIndexArr |-> IF useParsedIndexes
                               THEN [i \in 1..h.byteIndexLen |-> RawIndexAt(rawBIdx, i - 1)]
                               ELSE <<>>,
              mainIndexArr |-> IF useParsedIndexes
                               THEN [i \in 1..h.mainIndexLen |-> RawIndexAt(rawMIdx, i - 1)]
                               ELSE <<>>,
              dbDataNil    |-> ~memoryMode,
              dbData       |-> IF memoryMode
                               THEN Slice(file.body, bodyOff(dbBegin),
                                          bodyOff(dbBegin) + ToInt(dbSize))
                               ELSE <<>>,
              regionsData  |-> IF memoryMode /\ h.regionSize # BigZero
                               THEN Slice(file.body, bodyOff(regionsBegin),
                                          bodyOff(regionsBegin) + ToInt(h.regionSize))
                               ELSE <<>>,
              citiesData   |-> IF memoryMode /\ h.citySize # BigZero
                               THEN Slice(file.body, bodyOff(citiesBegin),
                                          bodyOff(citiesBegin) + ToInt(h.citySize))
                               ELSE <<>> ] ]

\* New's section offsets: dbBegin after the indexes; regionsBegin =
\* dbBegin + int64(dbItems * blockSize), the product a uint32; citiesBegin.
NewOffsets(file, memoryMode, batchMode, h, dbBegin, dbSize) ==
    NewLoaded(file, memoryMode, batchMode, h, dbBegin, dbSize,
              Add(dbBegin, dbSize), Add(Add(dbBegin, dbSize), h.regionSize))

\* New, once the 40 header bytes are read: parseHeader decides.
NewParsed(file, mode, ph) ==
    IF ~ph.ok THEN [ok |-> FALSE]
    ELSE NewOffsets(file, BitAnd(mode, ModeMemory) # 0, BitAnd(mode, ModeBatch) # 0, ph.h,
                    Big(BodyStart(file) + ph.h.byteIndexLen * 4 + ph.h.mainIndexLen * 4),
                    U32Mul(ph.h.dbItems, dbBlockLenOffset + ph.h.idLen))

\* New(dbFile, mode): the engine, or ok = FALSE when New returns an error.
\* f is "open" or "nil"; a nil slice is <<>>.
New(file, mode) ==
    IF Len(file.hdr) < dbHeaderLen THEN [ok |-> FALSE]
    ELSE NewParsed(file, mode, parseHeader(file.hdr))

Close_KeepHandle(s) == s

\* Close: the engine after it (the call returns nil unless closing fails).
Close(s) == [s EXCEPT !.f = "nil"]

\* What Close returns: the handle's close error, when there is a handle to
\* close and closing it fails (closeErr); nil otherwise.
CloseError(s, closeErr) == IF s.f # "nil" /\ closeErr THEN errClose ELSE Nil

\* ------------------------------------------------------------------------
\* ip2long: an IPv4 string to its four bytes
\* ------------------------------------------------------------------------
(***************************************************************************)
(* An input string is the sequence of its characters.  net.ParseIP is the  *)
(* Go library's: a dotted quad is four "."-separated decimal fields of one *)
(* to three digits, each at most 255 and without a leading zero; the       *)
(* IPv4-mapped form "::ffff:a.b.c.d" is an IPv4 address too (To4).  Any    *)
(* other input of the model's alphabet is no IPv4 address.                 *)
(***************************************************************************)
Digits == <<"0", "1", "2", "3", "4", "5", "6", "7", "8", "9">>

IsDigit(c) == \E i \in 1..10 : Digits[i] = c
DigitVal(c) == (CHOOSE i \in 1..10 : Digits[i] = c) - 1

\* The "."-separated fields of a character sequence.
RECURSIVE SplitDots(_, _, _)
SplitDots(str, i, cur) ==
    IF i > Len(str) THEN <<cur>>
    ELSE IF str[i] = "." THEN <<cur>> \o SplitDots(str, i + 1, <<>>)
    ELSE SplitDots(str, i + 1, Append(cur, str[i]))

RECURSIVE DecimalVal(_)
DecimalVal(f) ==
    IF Len(f) = 0 THEN 0
    ELSE DecimalVal(SubSeq(f, 1, Len(f) - 1)) * 10 + DigitVal(f[Len(f)])

\* One field of a dotted quad: its value, or -1.
ParseOctet(f) ==
    IF Len(f) = 0 \/ Len(f) > 3 THEN -1
    ELSE IF \E i \in 1..Len(f) : ~IsDigit(f[i]) THEN -1
    ELSE IF Len(f) > 1 /\ f[1] = "0" THEN -1
    ELSE IF DecimalVal(f) > 255 THEN -1
    ELSE DecimalVal(f)

ParseDottedQuad(str) ==
    LET fs == SplitDots(str, 1, <<>>) IN
    IF Len(fs) # 4 \/ \E i \in 1..4 : ParseOctet(fs[i]) < 0
    THEN [ok |-> FALSE, ip |-> <<0, 0, 0, 0>>]
    ELSE [ok |-> TRUE, ip |-> [i \in 1..4 |-> ParseOctet(fs[i])]]

MappedPrefix == <<":", ":", "f", "f", "f", "f", ":">>

\* ip2long: ok and the address's four bytes (the big-endian uint32).
ip2long(ipStr) ==
    IF Len(ipStr) > 7 /\ SubSeq(ipStr, 1, 7) = MappedPrefix
    THEN ParseDottedQuad(SubSeq(ipStr, 8, Len(ipStr)))
    ELSE ParseDottedQuad(ipStr)

\* ------------------------------------------------------------------------
\* decodeID, searchIdx, searchDb, getNum
\* ------------------------------------------------------------------------

decodeID_ThreeLittleEndian(s, idBytes) ==
    LET expectedLen == s.header.idLen IN
    IF Len(idBytes) # expectedLen
    THEN [num |-> BigZero, err |-> "incorrect number of bytes for ID"]
    ELSE CASE expectedLen = 1 -> [num |-> <<0, idBytes[1]>>, err |-> Nil]
           [] expectedLen = 2 -> [num |-> <<0, BigEndian(idBytes)>>, err |-> Nil]
           [] expectedLen = 3 ->
                [num |-> <<idBytes[3], idBytes[2] * 256 + idBytes[1]>>, err |-> Nil]
           [] expectedLen = 4 -> [num |-> BigEndian32(idBytes), err |-> Nil]
           [] OTHER -> [num |-> BigZero, err |-> "unsupported ID length in header"]

\* decodeID: the big-endian value of exactly header.idLen bytes.
decodeID(s, idBytes) ==
    LET expectedLen == s.header.idLen IN
    IF Len(idBytes) # expectedLen
    THEN [num |-> BigZero, err |-> "incorrect number of bytes for ID"]
    ELSE CASE expectedLen = 1 -> [num |-> <<0, idBytes[1]>>, err |-> Nil]
           [] expectedLen = 2 -> [num |-> <<0, BigEndian(idBytes)>>, err |-> Nil]
           [] expectedLen = 3 ->
                [num |-> <<idBytes[1], idBytes[2] * 256 + idBytes[3]>>, err |-> Nil]
           [] expectedLen = 4 -> [num |-> BigEndian32(idBytes), err |-> Nil]
           [] OTHER -> [num |-> BigZero, err |-> "unsupported ID length in header"]

\* The main-index entry at position i: the parsed array or the raw bytes.
MainIndexAt(s, parsed, i) ==
    IF parsed THEN At(s.mainIndexArr, i) ELSE RawIndexAt(s.mainIndexStr, i)

RECURSIVE IdxBisect_SkipsEqual(_, _, _, _, _)
IdxBisect_SkipsEqual(s, parsed, ipNumSearch, min, max) ==
    IF max - min > 8
    THEN LET mid == min + ((max - min) \div 2) IN
         IF Ge(ipNumSearch, MainIndexAt(s, parsed, mid))
         THEN IdxBisect_SkipsEqual(s, parsed, ipNumSearch, mid + 1, max)
         ELSE IdxBisect_SkipsEqual(s, parsed, ipNumSearch, min, mid)
    ELSE <<min, max>>

\* searchIdx's binary-search phase: the (min, max) it ends with.
RECURSIVE IdxBisect(_, _, _, _, _)
IdxBisect(s, parsed, ipNumSearch, min, max) ==
    IF max - min > 8
    THEN LET mid == min + ((max - min) \div 2) IN
         IF Gt(ipNumSearch, MainIndexAt(s, parsed, mid))
         THEN IdxBisect(s, parsed, ipNumSearch, mid + 1, max)
         ELSE IdxBisect(s, parsed, ipNumSearch, min, mid)
    ELSE <<min, max>>

\* searchIdx's linear phase: the first position from min up to currentMax
\* whose entry is >= the address, or currentMax + 1.
RECURSIVE IdxScan(_, _, _, _, _, _)
IdxScan(s, parsed, ipNumSearch, min, currentMax, indexLenBytes) ==
    IF min <= currentMax
    THEN IF ~parsed /\ min * 4 + 4 > indexLenBytes THEN min
         ELSE IF Gt(ipNumSearch, MainIndexAt(s, parsed, min))
         THEN IdxScan(s, parsed, ipNumSearch, min + 1, currentMax, indexLenBytes)
         ELSE min
    ELSE min

\* searchIdx(ipBytes, min, max): min and max are uint32 (pairs), so is the
\* result.
searchIdx(s, ipBytes, min, max) ==
    LET ipNumSearch == BigEndian32(ipBytes)
        parsed      == s.batchMode \/ s.memoryMode
        indexLenBytes == Len(s.mainIndexStr)
        indexLen    == IF parsed THEN Len(s.mainIndexArr) ELSE indexLenBytes \div 4
    IN
    IF ~parsed /\ indexLenBytes = 0 THEN min
    ELSE IF indexLen = 0 THEN min
    ELSE LET max1       == IF Ge(max, Big(indexLen)) THEN Big(indexLen - 1) ELSE max
             currentMax == ToInt(max1)
         IN
         IF Gt(min, max1) THEN min
         ELSE LET b == IdxBisect(s, parsed, ipNumSearch, ToInt(min), currentMax)
              IN  Big(IdxScan(s, parsed, ipNumSearch, b[1], currentMax, indexLenBytes))

\* The byte-by-byte comparison of the address's last three bytes with a
\* block's first three: 1, -1 or 0.
RECURSIVE CompareFrom(_, _, _)
CompareFrom(ipSuffix, blockIP, i) ==
    IF i >= dbBlockLenOffset THEN 0
    ELSE IF At(ipSuffix, i) > At(blockIP, i) THEN 1
    ELSE IF At(ipSuffix, i) < At(blockIP, i) THEN -1
    ELSE CompareFrom(ipSuffix, blockIP, i + 1)

\* The three address bytes of the block at (relative) index i of data.
BlockIP(data, blockSize, i) == Slice(data, i * blockSize, i * blockSize + dbBlockLenOffset)

\* searchDb's binary-search phase.
RECURSIVE DbBisect(_, _, _, _, _)
DbBisect(data, blockSize, ipSuffix, min, max) ==
    IF max - min > 8
    THEN LET mid == min + ((max - min) \div 2) IN
         IF CompareFrom(ipSuffix, BlockIP(data, blockSize, mid), 0) > 0
         THEN DbBisect(data, blockSize, ipSuffix, mid + 1, max)
         ELSE DbBisect(data, blockSize, ipSuffix, min, mid)
    ELSE <<min, max>>

\* DbScan stopping at the first block whose address is greater than or
\* equal to the suffix.
RECURSIVE DbScan_StopAtEqual(_, _, _, _, _)
DbScan_StopAtEqual(data, blockSize, ipSuffix, min, currentMax) ==
    IF min < currentMax
    THEN IF CompareFrom(ipSuffix, BlockIP(data, blockSize, min), 0) <= 0 THEN min
         ELSE DbScan_StopAtEqual(data, blockSize, ipSuffix, min + 1, currentMax)
    ELSE min

\* searchDb's linear phase: the first block from min whose address is
\* strictly greater than the suffix, or currentMax.
RECURSIVE DbScan(_, _, _, _, _)
DbScan(data, blockSize, ipSuffix, min, currentMax) ==
    IF min < currentMax
    THEN IF CompareFrom(ipSuffix, BlockIP(data, blockSize, min), 0) < 0 THEN min
         ELSE DbScan(data, blockSize, ipSuffix, min + 1, currentMax)
    ELSE min

\* A result of searchDb / getNum: the number, the error, and (for the
\* properties only) rel, the index in data of the block the number was
\* decoded from, -1 when none was.
NumResult(d, rel) == [num |-> d.num, err |-> d.err, rel |-> IF d.err = Nil THEN rel ELSE -1]
NotFound == [num |-> BigZero, err |-> Nil, rel |-> -1]
NumError(e) == [num |-> BigZero, err |-> e, rel |-> -1]
\* A run-time panic: the call does not return; the panic unwinds through
\* every caller (none recovers), so it is the outcome of the query.
NumPanic == NumError(errPanic)

\* searchDb's end: the payload of the block before the stop position, or
\* not found when there is no such block or data is too short for its id.
BlockPayload(s, data, targetBlockIdx) ==
    LET idOffset    == targetBlockIdx * s.blockSize + dbBlockLenOffset
        idEndOffset == idOffset + s.header.idLen
    IN  IF targetBlockIdx < 0 THEN NotFound
        ELSE IF idEndOffset > Len(data) THEN NotFound
        ELSE NumResult(decodeID(s, Slice(data, idOffset, idEndOffset)), targetBlockIdx)

\* BlockBeforeStop reading, for a stop position 0, the block before data's
\* start as the last block of data (an offset counted from the end).
BlockBeforeStop_FromEnd(s, data, min) ==
    IF min = 0 THEN BlockPayload(s, data, (Len(data) \div s.blockSize) - 1)
    ELSE BlockPayload(s, data, min - 1)

\* searchDb after its two loops left min at the stop position.  min is a
\* uint32: at 0, min - 1 wraps to 2^32 - 1, so targetBlockIdx is not
\* negative, uint32(idEndOffset) = uint32(2^32 * blockSize) = 0 passes the
\* boundary check, and data[idOffset:idEndOffset] is out of range: the
\* runtime panics.
BlockBeforeStop(s, data, min) ==
    IF min = 0 THEN NumPanic ELSE BlockPayload(s, data, min - 1)

\* searchDb on non-empty data, max clamped to the blocks data holds.
SearchDbClamped(s, data, ipSuffix, min, max) ==
    IF min >= max
    THEN IF min > 0 THEN BlockPayload(s, data, min - 1) ELSE NotFound
    ELSE BlockBeforeStop(s, data,
             DbScan(data, s.blockSize, ipSuffix,
                    DbBisect(data, s.blockSize, ipSuffix, min, max)[1], max))

\* searchDb(data, ipBytes, min, max): min, max are block indices in data.
searchDb(s, data, ipBytes, min, max) ==
    IF Len(data) = 0
    THEN IF max > min
         THEN NumError("searchDb called with empty data but non-empty range")
         ELSE NotFound
    ELSE SearchDbClamped(s, data, Slice(ipBytes, 1, 4), min,
                         IF max > Len(data) \div s.blockSize
                         THEN Len(data) \div s.blockSize ELSE max)

ByteIndexAt_RawNextEntry(s, i) ==
    IF s.batchMode \/ s.memoryMode
    THEN At(s.byteIndexArr, i)
    ELSE RawIndexAt(s.byteIndexStr, i + 1)

\* The block range of first byte ip1: byteIndex[ip1-1] and byteIndex[ip1].
ByteIndexAt(s, i) ==
    IF s.batchMode \/ s.memoryMode
    THEN At(s.byteIndexArr, i)
    ELSE RawIndexAt(s.byteIndexStr, i)

\* getNum's final checks of the range (src/search.go lines 124-152).  For
\* the properties only, the result keeps the range as it was on entry to
\* them (entryMin, entryMax).
WindowChecked(s, minBlock, maxBlock, narrowed, part, min2, max2) ==
    LET dbItems == s.header.dbItems
        empty   == Ge(min2, max2)
        min3    == IF empty /\ ~Lt(min2, dbItems) THEN U32Sub(dbItems, BigOne) ELSE min2
        max3    == IF empty
                   THEN (IF Lt(min2, dbItems) THEN U32Add(min2, BigOne) ELSE dbItems)
                   ELSE max2
        max4    == IF Gt(max3, dbItems) THEN dbItems ELSE max3
    IN
    IF empty /\ ~Lt(min2, dbItems) /\ dbItems = BigZero
    THEN [err |-> "search range invalid and DB is empty"]
    ELSE [err |-> Nil, searchMin |-> min3, searchMax |-> max4,
          minBlock |-> minBlock, maxBlock |-> maxBlock,
          narrowed |-> narrowed, part |-> part,
          entryMin |-> min2, entryMax |-> max2]

\* getNum's range [searchMin, searchMax) of DB blocks, given the byte
\* index's range, whether the main index was searched (narrowed) and the
\* partition part it gave: the range from part, its clamp to the byte
\* index's range, and the final checks (src/search.go lines 83-152).
WindowOfPart(s, minBlock, maxBlock, narrowed, part) ==
    LET rangeBlocks == s.header.rangeBlocks
        dbItems     == s.header.dbItems
        min1        == IF part = BigZero THEN minBlock ELSE U32Mul(part, rangeBlocks)
        max1        == IF Ge(part, Big(s.header.mainIndexLen))
                       THEN dbItems
                       ELSE U32Mul(U32Add(part, BigOne), rangeBlocks)
        min2        == IF narrowed
                       THEN (IF Lt(min1, minBlock) THEN minBlock ELSE min1)
                       ELSE minBlock
        max2        == IF narrowed
                       THEN (IF Gt(max1, maxBlock) THEN maxBlock ELSE max1)
                       ELSE maxBlock
    IN  WindowChecked(s, minBlock, maxBlock, narrowed, part, min2, max2)

\* The range of DB blocks getNum settles on before it reads any block
\* (src/search.go lines 39-152), or an error.
SearchWindowOf(s, ipBytes, minBlock, maxBlock) ==
    IF Gt(U32Sub(maxBlock, minBlock), Big(s.header.rangeBlocks))
    THEN IF s.header.rangeBlocks = 0
         THEN [err |-> "database header range is zero, cannot search main index"]
         ELSE WindowOfPart(s, minBlock, maxBlock, TRUE,
                  searchIdx(s, ipBytes,
                            U32Div(minBlock, s.header.rangeBlocks),
                            IF Lt(U32Div(U32Sub(maxBlock, BigOne), s.header.rangeBlocks),
                                  U32Div(minBlock, s.header.rangeBlocks))
                            THEN U32Div(minBlock, s.header.rangeBlocks)
                            ELSE U32Div(U32Sub(maxBlock, BigOne), s.header.rangeBlocks)))
    ELSE WindowOfPart(s, minBlock, maxBlock, FALSE, BigZero)

SearchWindow(s, ipBytes) ==
    SearchWindowOf(s, ipBytes, ByteIndexAt(s, ipBytes[1] - 1), ByteIndexAt(s, ipBytes[1]))

\* A result of getNum: the number and the error; and, for the properties
\* only, blk, the index in the DB of the block the number was decoded from
\* (-1 when none was), and io, the sections the call read.
GetNumResult(r, base, io) ==
    [num |-> r.num, err |-> r.err,
     blk |-> IF r.rel < 0 THEN -1 ELSE base + r.rel, io |-> io]

\* getNum in memory mode: the search of dbData[searchMin*blockSize :
\* searchMax*blockSize] (src/search.go lines 158-183).
GetNumMemory(s, ipBytes, searchMin, searchMax) ==
    LET blockSize == s.blockSize
        idLen     == s.header.idLen
        lastBlock == Sub(s.header.dbItems, BigOne)
        dataLen   == Big(Len(s.dbData))
        startByte == MulSmall(searchMin, blockSize)
        endByte0  == MulSmall(searchMax, blockSize)
        endByte   == IF Gt(endByte0, dataLen) THEN dataLen ELSE endByte0
        idOffset  == Add(MulSmall(lastBlock, blockSize), Big(dbBlockLenOffset))
    IN
    IF s.dbDataNil
    THEN GetNumResult(NumError("cannot search: dbData not loaded in memory mode"), 0, {})
    ELSE IF Ge(startByte, endByte)
    THEN IF Le(Add(idOffset, Big(idLen)), dataLen)
         THEN GetNumResult(
                  NumResult(decodeID(s, Slice(s.dbData, ToInt(idOffset),
                                              ToInt(idOffset) + idLen)), 0),
                  ToInt(lastBlock), {"db"})
         ELSE GetNumResult(NumError("invalid memory search range calculated"), 0, {})
    ELSE GetNumResult(searchDb(s, Slice(s.dbData, ToInt(startByte), ToInt(endByte)),
                               ipBytes, 0,
                               (ToInt(endByte) - ToInt(startByte)) \div blockSize),
                      ToInt(searchMin), {"db"})

\* getNum in file mode, once ReadAt returned rd for the range's blocks
\* (src/search.go lines 205-238).
GetNumRead(s, file, ipBytes, searchMin, rd) ==
    LET blockSize == s.blockSize
        idLen     == s.header.idLen
        lastBlock == Sub(s.header.dbItems, BigOne)
        n         == Len(rd.data)
        lastBlockOffset == Add(s.dbBegin, MulSmall(lastBlock, blockSize))
        last      == ReadAt(file, Big(blockSize), lastBlockOffset, FALSE)
    IN
    IF rd.err # Nil /\ rd.err # errEOF
    THEN GetNumResult(NumError("failed to read DB part"), 0, {"db"})
    ELSE IF n = 0
    THEN IF last.err = Nil /\ Len(last.data) >= dbBlockLenOffset + idLen
         THEN GetNumResult(
                  NumResult(decodeID(s, Slice(last.data, dbBlockLenOffset,
                                              dbBlockLenOffset + idLen)), 0),
                  ToInt(lastBlock), {"db"})
         ELSE GetNumResult(NumError("read 0 bytes (EOF or bad range)"), 0, {"db"})
    ELSE GetNumResult(searchDb(s, rd.data, ipBytes, 0, n \div blockSize),
                      ToInt(searchMin), {"db"})

\* getNum in file mode (src/search.go lines 185-204).
GetNumFile(s, file, ipBytes, searchMin, searchMax, ioFail) ==
    IF U32Sub(searchMax, searchMin) = BigZero
    THEN GetNumResult(NumError("calculated file search range has zero items unexpectedly"), 0, {})
    ELSE IF s.f = "nil"
    THEN GetNumResult(NumError("cannot read file: file handle is nil"), 0, {})
    ELSE GetNumRead(s, file, ipBytes, searchMin,
                    ReadAt(file, MulSmall(U32Sub(searchMax, searchMin), s.blockSize),
                           Add(s.dbBegin, MulSmall(searchMin, s.blockSize)), ioFail))

\* getNum, once the range of blocks is settled.
GetNumWindow(s, file, ipBytes, w, ioFail) ==
    IF w.err # Nil THEN GetNumResult(NumError(w.err), 0, {})
    ELSE IF s.memoryMode THEN GetNumMemory(s, ipBytes, w.searchMin, w.searchMax)
    ELSE GetNumFile(s, file, ipBytes, w.searchMin, w.searchMax, ioFail)

\* IsReserved without its check of the private range 10.x.x.x.
IsReserved_Without10(s, ip1) ==
    ip1 = 0 \/ ip1 = 127 \/ ip1 >= s.header.byteIndexLen

\* getNum's check of the first byte: reserved, or beyond the byte index.
IsReserved(s, ip1) ==
    ip1 = 0 \/ ip1 = 10 \/ ip1 = 127 \/ ip1 >= s.header.byteIndexLen

\* getNum, once ip2long returned p.
GetNumParsed(s, file, p, ioFail) ==
    IF ~p.ok THEN GetNumResult(NumError(errInvalidIP), 0, {})
    ELSE IF IsReserved(s, p.ip[1])
    THEN GetNumResult(NumError(errReservedRange), 0, {})
    ELSE GetNumWindow(s, file, p.ip, SearchWindow(s, p.ip), ioFail)

\* getNum(ipStr).  ioFail: the device fails the read of the DB blocks.
getNum(s, file, ipStr, ioFail) == GetNumParsed(s, file, ip2long(ipStr), ioFail)

\* ------------------------------------------------------------------------
\* unpack and the typed getters
\* ------------------------------------------------------------------------
(***************************************************************************)
(* A decoded value is tagged with its Go type: [k |-> "uint8", v |-> n],   *)
(* likewise "int8", "int16", "uint16", "int32" (v an integer); "uint32"    *)
(* (v a pair); "string" (v the bytes); and "float64".  A float64 made by   *)
(* the "n" and "N" codes is the decimal num / 10^scale, kept in lowest     *)
(* terms: [k |-> "float64", src |-> "dec", num, scale]; one made by "f" or *)
(* "d" keeps its IEEE-754 bytes: [k |-> "float64", src |-> "ieee", bits].  *)
(* A map[string]interface{} is a function from field names to values.      *)
(***************************************************************************)
EmptyMap == [n \in {} |-> 0]
MapLen(m) == Cardinality(DOMAIN m)
MapPut(m, name, value) ==
    [n \in (DOMAIN m) \cup {name} |-> IF n = name THEN value ELSE m[n]]

\* The signed value of a w-byte two's-complement number u (w <= 3).
Signed(u, w) ==
    LET half == IF w = 1 THEN 128 ELSE IF w = 2 THEN 32768 ELSE 8388608
    IN  IF u >= half THEN u - 2 * half ELSE u

\* int32(binary.LittleEndian.Uint32(b)).
Int32LE(b) ==
    (IF b[4] >= 128 THEN b[4] - 256 ELSE b[4]) * 16777216
    + b[3] * 65536 + b[2] * 256 + b[1]

\* num / 10^scale in lowest terms (scale >= 0).
RECURSIVE Dec(_, _)
Dec(num, scale) ==
    IF num = 0 THEN [k |-> "float64", src |-> "dec", num |-> 0, scale |-> 0]
    ELSE IF scale > 0 /\ num % 10 = 0 THEN Dec(num \div 10, scale - 1)
    ELSE [k |-> "float64", src |-> "dec", num |-> num, scale |-> scale]

FloatZero == Dec(0, 0)

\* strconv.Atoi of a sequence of digit characters: ok and the number.
Atoi(cs) ==
    IF Len(cs) = 0 \/ Len(cs) > 4 \/ \E i \in 1..Len(cs) : ~IsDigit(cs[i])
    THEN [ok |-> FALSE, n |-> 0]
    ELSE [ok |-> TRUE, n |-> DecimalVal(cs)]

\* strings.TrimRight(s, "\x00 "): without its trailing NUL and space bytes.
RECURSIVE TrimRight(_)
TrimRight(b) ==
    IF Len(b) > 0 /\ (b[Len(b)] = 0 \/ b[Len(b)] = 32)
    THEN TrimRight(SubSeq(b, 1, Len(b) - 1))
    ELSE b

\* The position of the first NUL of data at or after offset, or Len(data).
RECURSIVE FindNul(_, _)
FindNul(data, end) ==
    IF end < Len(data) /\ At(data, end) # 0 THEN FindNul(data, end + 1) ELSE end

\* The width of a fixed-width type code, 0 for the others.
FixedWidth(typeCode) ==
    CASE typeCode \in {"t", "T"} -> 1
      [] typeCode \in {"s", "S", "n"} -> 2
      [] typeCode \in {"m", "M"} -> 3
      [] typeCode \in {"i", "I", "f", "N"} -> 4
      [] typeCode = "d" -> 8
      [] OTHER -> 0

\* One field of unpack's loop: the value, the bytes consumed and the error.
UnpackField(typeCode, typeLenStr, data, offset) ==
    LET dataLen == Len(data)
        w       == FixedWidth(typeCode)
        b       == Slice(data, offset, offset + w)
        scale   == Atoi(typeLenStr).n
    IN
    IF w > 0
    THEN IF offset + w > dataLen
         THEN [length |-> w, err |-> errUnexpectedEOF]
         ELSE [length |-> w, err |-> Nil, value |->
              CASE typeCode = "t" -> [k |-> "int8", v |-> Signed(b[1], 1)]
                [] typeCode = "T" -> [k |-> "uint8", v |-> b[1]]
                [] typeCode = "s" -> [k |-> "int16", v |-> Signed(LittleEndian(b), 2)]
                [] typeCode = "S" -> [k |-> "uint16", v |-> LittleEndian(b)]
                [] typeCode = "m" -> [k |-> "int32", v |-> Signed(LittleEndian(b), 3)]
                [] typeCode = "M" -> [k |-> "uint32", v |-> Big(LittleEndian(b))]
                [] typeCode = "i" -> [k |-> "int32", v |-> Int32LE(b)]
                [] typeCode = "I" -> [k |-> "uint32", v |-> LittleEndian32(b)]
                [] typeCode = "f" -> [k |-> "float64", src |-> "ieee", bits |-> b]
                [] typeCode = "d" -> [k |-> "float64", src |-> "ieee", bits |-> b]
                [] typeCode = "n" -> Dec(Signed(LittleEndian(b), 2), scale)
                [] typeCode = "N" -> Dec(Int32LE(b), scale)]
    ELSE IF typeCode = "c"
    THEN LET a == Atoi(typeLenStr) IN
         IF ~a.ok \/ a.n <= 0
         THEN [length |-> 0, err |-> "invalid length for c format"]
         ELSE LET length == IF offset + a.n > dataLen THEN dataLen - offset ELSE a.n IN
              [length |-> length, err |-> Nil,
               value |-> [k |-> "string",
                          v |-> TrimRight(Slice(data, offset, offset + length))]]
    ELSE IF typeCode = "b"
    THEN LET end == FindNul(data, offset) IN
         IF end >= dataLen
         THEN [length |-> dataLen - offset, err |-> Nil,
               value |-> [k |-> "string", v |-> Slice(data, offset, dataLen)]]
         ELSE [length |-> (end - offset) + 1, err |-> Nil,
               value |-> [k |-> "string", v |-> Slice(data, offset, end)]]
    ELSE [length |-> 0, err |-> "unsupported format specifier"]

\* unpack's loop over the parts from the i-th, at offset, result so far;
\* UnpackStep is the loop's body once the part's field f is decoded.
RECURSIVE UnpackParts(_, _, _, _, _)
UnpackStep(parts, i, data, offset, result, f) ==
    IF f.err # Nil THEN [m |-> result, err |-> f.err]
    ELSE UnpackParts(parts, i + 1, data, offset + f.length,
                     MapPut(result, parts[i].name, f.value))

UnpackParts(parts, i, data, offset, result) ==
    IF i > Len(parts) THEN [m |-> result, err |-> Nil]
    ELSE IF offset >= Len(data) THEN [m |-> result, err |-> Nil]
    ELSE IF ~parts[i].colon THEN [m |-> result, err |-> "invalid unpack format part"]
    ELSE UnpackStep(parts, i, data, offset, result,
                    UnpackField(parts[i].tf[1], Tail(parts[i].tf), data, offset))

\* unpack(format, data): the map and the error.  (A nil map is EmptyMap.)
unpack(format, data) ==
    IF Len(data) = 0 THEN [m |-> EmptyMap, err |-> Nil]
    ELSE IF format = <<>> THEN [m |-> EmptyMap, err |-> "unpack format string is empty"]
    ELSE UnpackParts(format, 1, data, 0, EmptyMap)

Has(m, key) == key \in DOMAIN m

getString(m, key) ==
    IF Has(m, key) /\ m[key].k = "string" THEN m[key].v ELSE <<>>

\* The bits of little-endian bytes, most significant first.
BitsOf(b) ==
    [i \in 1..(8 * Len(b)) |->
        (b[Len(b) - ((i - 1) \div 8)] \div (2 ^ (7 - ((i - 1) % 8)))) % 2]

\* The number a sequence of at most 30 bits stands for.
RECURSIVE BitsVal(_)
BitsVal(bits) ==
    IF bits = <<>> THEN 0
    ELSE 2 * BitsVal(SubSeq(bits, 1, Len(bits) - 1)) + bits[Len(bits)]

\* The uint32 a sequence of at most 32 bits stands for.
BigOfBits(bits) ==
    IF Len(bits) <= 16 THEN <<0, BitsVal(bits)>>
    ELSE <<BitsVal(SubSeq(bits, 1, Len(bits) - 16)),
           BitsVal(SubSeq(bits, Len(bits) - 15, Len(bits)))>>

\* An IEEE-754 number given by its sign, biased exponent, exponent E and
\* mantissa bits: whether v >= 0 && v <= math.MaxUint32 && v == math.Floor(v),
\* and then uint32(v).  NaN fails every comparison; -0 passes and is 0.
IeeeUintOf(sign, exp, expMax, E, mant) ==
    IF exp = 0
    THEN [fits |-> \A i \in 1..Len(mant) : mant[i] = 0, v |-> BigZero]
    ELSE IF exp = expMax \/ sign = 1 \/ E < 0 \/ E > 31
    THEN [fits |-> FALSE, v |-> BigZero]
    ELSE IF E >= Len(mant)
    THEN [fits |-> TRUE,
          v |-> BigOfBits(<<1>> \o mant \o [i \in 1..(E - Len(mant)) |-> 0])]
    ELSE [fits |-> \A i \in (E + 1)..Len(mant) : mant[i] = 0,
          v |-> BigOfBits(<<1>> \o SubSeq(mant, 1, E))]

\* The same for the bits of a float32 (32 bits) or a float64 (64 bits).
IeeeUintBits(bits, expBits, bias) ==
    IeeeUintOf(bits[1], BitsVal(SubSeq(bits, 2, 1 + expBits)), 2 * bias + 1,
               BitsVal(SubSeq(bits, 2, 1 + expBits)) - bias,
               SubSeq(bits, 2 + expBits, Len(bits)))

\* The same for the float64 unpack made of an 'f' (4 bytes) or 'd' (8 bytes)
\* field.
IeeeUint(b) ==
    IF Len(b) = 4 THEN IeeeUintBits(BitsOf(b), 8, 127)
    ELSE IeeeUintBits(BitsOf(b), 11, 1023)

\* getUint8 / getUint32 of an IEEE float64, its range check r done.
IeeeFits(r, max) == IF r.fits /\ Le(r.v, max) THEN r.v ELSE BigZero

\* Whether a float64 is >= 0, <= max (255 or 2^32 - 1) and integral, for
\* the float64 of an 'n' / 'N' field (a decimal num / 10^scale).
DecFits(x, max) ==
    x.num >= 0 /\ x.scale = 0 /\ Le(Big(x.num), max)

getUint8(m, key) ==
    IF ~Has(m, key) THEN 0
    ELSE LET x == m[key] IN
         CASE x.k = "uint8" -> x.v
           [] x.k = "int8" -> x.v % 256
           [] x.k = "uint16" -> IF x.v <= 255 THEN x.v ELSE 0
           [] x.k = "uint32" -> IF Le(x.v, Big(255)) THEN ToInt(x.v) ELSE 0
           [] x.k = "float64" /\ x.src = "dec" ->
                IF DecFits(x, Big(255)) THEN x.num ELSE 0
           [] x.k = "float64" /\ x.src = "ieee" ->
                ToInt(IeeeFits(IeeeUint(x.bits), Big(255)))
           [] OTHER -> 0

getUint32(m, key) ==
    IF ~Has(m, key) THEN BigZero
    ELSE LET x == m[key] IN
         CASE x.k = "uint32" -> x.v
           [] x.k = "int32" -> IF x.v >= 0 THEN Big(x.v) ELSE BigZero
           [] x.k = "uint16" -> Big(x.v)
           [] x.k = "uint8" -> Big(x.v)
           [] x.k = "float64" /\ x.src = "dec" ->
                IF DecFits(x, <<65535, 65535>>) THEN Big(x.num) ELSE BigZero
           [] x.k = "float64" /\ x.src = "ieee" ->
                IeeeFits(IeeeUint(x.bits), <<65535, 65535>>)
           [] OTHER -> BigZero

\* getFloat: the float64 of a value (the integer kinds converted).
getFloat(m, key) ==
    IF ~Has(m, key) THEN FloatZero
    ELSE LET x == m[key] IN
         CASE x.k = "float64" -> x
           [] x.k \in {"int8", "int16", "int32", "uint8", "uint16"} -> Dec(x.v, 0)
           [] x.k = "uint32" /\ x.v[1] < 32768 -> Dec(ToInt(x.v), 0)
           [] x.k = "uint32" -> [k |-> "float64", src |-> "u32", v |-> x.v]
           [] OTHER -> FloatZero

\* ------------------------------------------------------------------------
\* The ISO table (id2iso, getISO)
\* ------------------------------------------------------------------------

id2iso ==
  <<
    "", "AP", "EU", "AD", "AE", "AF", "AG", "AI", "AL", "AM", "CW",
    "AO", "AQ", "AR", "AS", "AT", "AU", "AW", "AZ", "BA", "BB", "BD",
    "BE", "BF", "BG", "BH", "BI", "BJ", "BM", "BN", "BO", "BR", "BS",
    "BT", "BV", "BW", "BY", "BZ", "CA", "CC", "CD", "CF", "CG", "CH",
    "CI", "CK", "CL", "CM", "CN", "CO", "CR", "CU", "CV", "CX", "CY",
    "CZ", "DE", "DJ", "DK", "DM", "DO", "DZ", "EC", "EE", "EG", "EH",
    "ER", "ES", "ET", "FI", "FJ", "FK", "FM", "FO", "FR", "SX", "GA",
    "GB", "GD", "GE", "GF", "GH", "GI", "GL", "GM", "GN", "GP", "GQ",
    "GR", "GS", "GT", "GU", "GW", "GY", "HK", "HM", "HN", "HR", "HT",
    "HU", "ID", "IE", "IL", "IN", "IO", "IQ", "IR", "IS", "IT", "JM",
    "JO", "JP", "KE", "KG", "KH", "KI", "KM", "KN", "KP", "KR", "KW",
    "KY", "KZ", "LA", "LB", "LC", "LI", "LK", "LR", "LS", "LT", "LU",
    "LV", "LY", "MA", "MC", "MD", "MG", "MH", "MK", "ML", "MM", "MN",
    "MO", "MP", "MQ", "MR", "MS", "MT", "MU", "MV", "MW", "MX", "MY",
    "MZ", "NA", "NC", "NE", "NF", "NG", "NI", "NL", "NO", "NP", "NR",
    "NU", "NZ", "OM", "PA", "PE", "PF", "PG", "PH", "PK", "PL", "PM",
    "PN", "PR", "PS", "PT", "PW", "PY", "QA", "RE", "RO", "RU", "RW",
    "SA", "SB", "SC", "SD", "SE", "SG", "SH", "SI", "SJ", "SK", "SL",
    "SM", "SN", "SO", "SR", "ST", "SV", "SY", "SZ", "TC", "TD", "TF",
    "TG", "TH", "TJ", "TK", "TM", "TN", "TO", "TL", "TR", "TT", "TV",
    "TW", "TZ", "UA", "UG", "UM", "US", "UY", "UZ", "VA", "VC", "VE",
    "VG", "VI", "VN", "VU", "WF", "WS", "YE", "YT", "RS", "ZA", "ZM",
    "ME", "ZW", "A1", "A2", "O1", "AX", "GG", "IM", "JE", "BL", "MF",
    "BQ", "SS", "Unknown"
  >>

\* getISO indexing the table from 1.
getISO_FromOne(id) ==
    IF Gt(id, BigZero) /\ Lt(id, Big(Len(id2iso))) THEN id2iso[ToInt(id)] ELSE ""

\* getISO(id), id a uint32 (a pair): "" for 0 and for an id out of the table.
getISO(id) ==
    IF Gt(id, BigZero) /\ Lt(id, Big(Len(id2iso))) THEN At(id2iso, ToInt(id)) ELSE ""

\* ------------------------------------------------------------------------
\* readData and parseCity
\* ------------------------------------------------------------------------

HasFormat(s, dataType) ==
    ~(dataType < 0 \/ dataType >= Len(s.packFormats) \/ At(s.packFormats, dataType) = <<>>)

SectionName(dataType) ==
    IF dataType = 0 THEN "country" ELSE IF dataType = 1 THEN "region" ELSE "city"

\* A result of readData: the map and the error; and, for the properties
\* only, io (the record sections it read) and raw (the bytes it unpacked).
ReadResult(u, io, raw) == [m |-> u.m, err |-> u.err, io |-> io, raw |-> raw]
EmptyRead(io) == [m |-> EmptyMap, err |-> Nil, io |-> io, raw |-> <<>>]
ReadError(e, io) == [m |-> EmptyMap, err |-> e, io |-> io, raw |-> <<>>]

\* readData(seek, maxSize, dataType): seek a uint32 (a pair).  ioFail: the
\* device fails the read.
readData(s, file, seek, maxSize, dataType, ioFail) ==
    IF ~HasFormat(s, dataType) THEN EmptyRead({})
    ELSE IF maxSize = 0 THEN EmptyRead({})
    ELSE IF s.memoryMode
    THEN LET sourceData == IF dataType = 1 THEN s.regionsData ELSE s.citiesData
             sourceLen  == Big(Len(sourceData))
             start      == seek
             end0       == Add(start, Big(maxSize))
             end        == IF Gt(end0, sourceLen) THEN sourceLen ELSE end0
         IN  IF Len(sourceData) = 0 THEN EmptyRead({})
             ELSE IF Gt(start, sourceLen)
             THEN ReadError("invalid seek in memory", {})
             ELSE IF Ge(start, end) THEN EmptyRead({})
             ELSE LET data == Slice(sourceData, ToInt(start), ToInt(end)) IN
                  ReadResult(unpack(At(s.packFormats, dataType), data),
                             {SectionName(dataType)}, data)
    ELSE IF s.f = "nil" THEN ReadError("file mode error: file handle is nil", {})
    ELSE LET absOffset == IF dataType = 1 THEN Add(s.regionsBegin, seek)
                          ELSE Add(s.citiesBegin, seek)
             rd == ReadAt(file, Big(maxSize), absOffset, ioFail)
         IN  IF rd.err # Nil /\ rd.err # errEOF
             THEN ReadError("failed to read data", {SectionName(dataType)})
             ELSE IF Len(rd.data) = 0 THEN EmptyRead({SectionName(dataType)})
             ELSE ReadResult(unpack(At(s.packFormats, dataType), rd.data),
                             {SectionName(dataType)}, rd.data)

\* A nil pointer; a pointer to a struct is the struct with nil |-> FALSE.
NilPtr == [nil |-> TRUE]

\* A result of parseCity and of the city queries: the *LocationInfo, the
\* error and, for the properties only, the sections read.
InfoResult(info, err, io) == [val |-> info, err |-> err, io |-> io]

\* parseCity's countryIDToUse: the id of the country record when one was
\* read and has an id, the city record's country_id otherwise.
CountryIDToUse(countryData, cityCountryID) ==
    IF MapLen(countryData) > 0 /\ Has(countryData, "id")
    THEN getUint8(countryData, "id")
    ELSE cityCountryID

\* parseCity step 4: the Country struct, nil when the id is 0.
CountryOf(countryData, countryIDToUse) ==
    IF countryIDToUse > 0
    THEN IF MapLen(countryData) > 0
         THEN [ nil    |-> FALSE,
                ID     |-> countryIDToUse,
                ISO    |-> getISO(Big(countryIDToUse)),
                Lat    |-> getFloat(countryData, "lat"),
                Lon    |-> getFloat(countryData, "lon"),
                NameRU |-> getString(countryData, "name_ru"),
                NameEN |-> getString(countryData, "name_en") ]
         ELSE [ nil    |-> FALSE,
                ID     |-> countryIDToUse,
                ISO    |-> getISO(Big(countryIDToUse)),
                Lat    |-> FloatZero,
                Lon    |-> FloatZero,
                NameRU |-> <<>>,
                NameEN |-> <<>> ]
    ELSE NilPtr

\* parseCity steps 3 and 4, once the country record (if any) is read:
\* countryData is what readData returned, the empty map when the read
\* was skipped.
ParseCountry(City, Region, countryData, io) ==
    InfoResult([ nil     |-> FALSE,
                 City    |-> City,
                 Region  |-> Region,
                 Country |-> CountryOf(countryData,
                                       CountryIDToUse(countryData, City.countryID)) ],
               Nil, io)

\* parseCity step 3, once the country record is read: the map is used
\* whether or not the read returned an error.
ParseCountryRead(City, Region, io, k) == ParseCountry(City, Region, k.m, io \cup k.io)

\* parseCity step 3: the country record is read through the region's
\* countrySeek when there is one, a country size and a country format.
ParseRegion(s, file, fail, City, Region, countrySeek, io) ==
    IF /\ Gt(countrySeek, BigZero) /\ s.header.maxCountry > 0
       /\ ~(Len(s.packFormats) = 0 \/ At(s.packFormats, 0) = <<>>)
    THEN ParseCountryRead(City, Region, io,
                          readData(s, file, countrySeek, s.header.maxCountry, 0,
                                   "country" \in fail))
    ELSE ParseCountry(City, Region, EmptyMap, io)

\* RegionRead taking the country seek from the region's id field.
RegionRead_SeekFromID(s, file, fail, City, io, r) ==
    IF r.err = Nil /\ MapLen(r.m) > 0
    THEN ParseRegion(s, file, fail, City,
                     [ nil         |-> FALSE,
                       ID          |-> getUint32(r.m, "id"),
                       NameRU      |-> getString(r.m, "name_ru"),
                       NameEN      |-> getString(r.m, "name_en"),
                       ISO         |-> getString(r.m, "iso"),
                       countrySeek |-> getUint32(r.m, "country_seek") ],
                     getUint32(r.m, "id"), io \cup r.io)
    ELSE ParseRegion(s, file, fail, City, NilPtr, BigZero, io \cup r.io)

\* parseCity step 2, once the region record is read: a read error or an
\* empty record leaves the region nil.
RegionRead(s, file, fail, City, io, r) ==
    IF r.err = Nil /\ MapLen(r.m) > 0
    THEN ParseRegion(s, file, fail, City,
                     [ nil         |-> FALSE,
                       ID          |-> getUint32(r.m, "id"),
                       NameRU      |-> getString(r.m, "name_ru"),
                       NameEN      |-> getString(r.m, "name_en"),
                       ISO         |-> getString(r.m, "iso"),
                       countrySeek |-> getUint32(r.m, "country_seek") ],
                     getUint32(r.m, "country_seek"), io \cup r.io)
    ELSE ParseRegion(s, file, fail, City, NilPtr, BigZero, io \cup r.io)

\* ParseCity returning the region read's error to the caller.
ParseCity_RegionErrorFatal(s, file, full, fail, City, io) ==
    IF /\ full /\ Gt(City.regionSeek, BigZero) /\ s.header.maxRegion > 0
       /\ ~(Len(s.packFormats) <= 1 \/ At(s.packFormats, 1) = <<>>)
    THEN LET r == readData(s, file, City.regionSeek, s.header.maxRegion, 1,
                           "region" \in fail)
         IN  IF r.err # Nil
             THEN InfoResult(NilPtr, "failed to read region data", io \cup r.io)
             ELSE RegionRead(s, file, fail, City, io, r)
    ELSE ParseRegion(s, file, fail, City, NilPtr, BigZero, io)

\* parseCity step 2: the region is read when full is asked for, the city
\* has a region seek, and the database has a region size and format.
ParseCity(s, file, full, fail, City, io) ==
    IF /\ full /\ Gt(City.regionSeek, BigZero) /\ s.header.maxRegion > 0
       /\ ~(Len(s.packFormats) <= 1 \/ At(s.packFormats, 1) = <<>>)
    THEN RegionRead(s, file, fail, City, io,
                    readData(s, file, City.regionSeek, s.header.maxRegion, 1,
                             "region" \in fail))
    ELSE ParseRegion(s, file, fail, City, NilPtr, BigZero, io)

\* parseCity step 1, once the city record is read.
CityRead(s, file, full, fail, c) ==
    IF c.err # Nil THEN InfoResult(NilPtr, "failed to read city data", c.io)
    ELSE IF MapLen(c.m) = 0
    THEN InfoResult(NilPtr, "city data not found or empty", c.io)
    ELSE ParseCity(s, file, full, fail,
                   [ nil        |-> FALSE,
                     ID         |-> getUint32(c.m, "id"),
                     Lat        |-> getFloat(c.m, "lat"),
                     Lon        |-> getFloat(c.m, "lon"),
                     NameRU     |-> getString(c.m, "name_ru"),
                     NameEN     |-> getString(c.m, "name_en"),
                     regionSeek |-> getUint32(c.m, "region_seek"),
                     countryID  |-> getUint8(c.m, "country_id") ],
                   c.io)

\* parseCity(seek, full).  fail: the sections whose read the device fails.
parseCity(s, file, seek, full, fail) ==
    IF Len(s.packFormats) <= 2 \/ At(s.packFormats, 2) = <<>>
    THEN InfoResult(NilPtr, "database is missing city pack format", {})
    ELSE CityRead(s, file, full, fail,
                  readData(s, file, seek, s.header.maxCity, 2, "city" \in fail))

\* ------------------------------------------------------------------------
\* The public queries
\* ------------------------------------------------------------------------
(***************************************************************************)
(* Every query yields [val, err, io]: the value returned, the error ("nil" *)
(* for none) and, for the properties only, io: the sections of the         *)
(* database the call read ("db", "city", "region", "country").             *)
(* fail is the set of sections whose read the device fails during the      *)
(* call ({} when the device works).                                        *)
(***************************************************************************)
Result(val, err, io) == [val |-> val, err |-> err, io |-> io]

\* GetCountryID on a city database, once the city record is read.
CountryIDOfCity(c, io) ==
    IF c.err # Nil
    THEN Result(BigZero, "failed to read city data for country ID lookup", io \cup c.io)
    ELSE IF MapLen(c.m) = 0 THEN Result(BigZero, Nil, io \cup c.io)
    ELSE Result(Big(getUint8(c.m, "country_id")), Nil, io \cup c.io)

\* GetCountryID, once getNum returned g.
CountryIDOfNum(s, file, fail, g) ==
    IF g.err # Nil
    THEN IF g.err = errReservedRange THEN Result(BigZero, Nil, g.io)
         ELSE Result(BigZero, g.err, g.io)
    ELSE IF g.num = BigZero THEN Result(BigZero, Nil, g.io)
    ELSE IF s.header.maxCity > 0
    THEN CountryIDOfCity(readData(s, file, g.num, s.header.maxCity, 2, "city" \in fail),
                         g.io)
    ELSE Result(g.num, Nil, g.io)

GetCountryID(s, file, ip, fail) ==
    CountryIDOfNum(s, file, fail, getNum(s, file, ip, "db" \in fail))

\* GetCountry, once GetCountryID returned r.
CountryOfID(r) ==
    IF r.err # Nil THEN Result("", r.err, r.io)
    ELSE IF r.val = BigZero THEN Result("", Nil, r.io)
    ELSE Result(getISO(r.val), Nil, r.io)

GetCountry(s, file, ip, fail) == CountryOfID(GetCountryID(s, file, ip, fail))

\* GetCity / GetCityFull, once parseCity returned p.
CityParsed(p, io) ==
    IF p.err # Nil THEN Result(NilPtr, p.err, io \cup p.io)
    ELSE Result(p.val, Nil, io \cup p.io)

\* GetCity / GetCityFull, once getNum returned g.
CityOfNum(s, file, full, fail, g) ==
    IF g.err # Nil
    THEN IF g.err = errReservedRange THEN Result(NilPtr, Nil, g.io)
         ELSE Result(NilPtr, g.err, g.io)
    ELSE IF g.num = BigZero THEN Result(NilPtr, Nil, g.io)
    ELSE CityParsed(parseCity(s, file, g.num, full, fail), g.io)

GetCity(s, file, ip, fail) ==
    IF s.header.maxCity = 0 THEN Result(NilPtr, Nil, {})
    ELSE CityOfNum(s, file, FALSE, fail, getNum(s, file, ip, "db" \in fail))

GetCityFull(s, file, ip, fail) ==
    IF s.header.maxCity = 0 THEN Result(NilPtr, Nil, {})
    ELSE CityOfNum(s, file, TRUE, fail, getNum(s, file, ip, "db" \in fail))

\* An interface{} value: its dynamic type and the value; the nil interface
\* has neither.  A typed nil pointer stored in an interface is not nil.
NilInterface == [dyn |-> "nil"]
Interface(dyn, v) == [dyn |-> dyn, v |-> v]
IsNilInterface(x) == x.dyn = "nil"

\* Get's return: the (T, error) of the query it delegates to, converted to
\* (interface{}, error).
Converted(dyn, r) == Result(Interface(dyn, r.val), r.err, r.io)

Get(s, file, ip, fail) ==
    IF s.header.maxCity > 0
    THEN Converted("*LocationInfo", GetCityFull(s, file, ip, fail))
    ELSE Converted("string", GetCountry(s, file, ip, fail))

\* The public queries by name.
QueryOps == {"GetCountry", "GetCountryID", "GetCity", "GetCityFull", "Get"}

\* The query op on engine s.
QueryOf(op, s, f, ip, fail) ==
    CASE op = "GetCountry"   -> GetCountry(s, f, ip, fail)
      [] op = "GetCountryID" -> GetCountryID(s, f, ip, fail)
      [] op = "GetCity"      -> GetCity(s, f, ip, fail)
      [] op = "GetCityFull"  -> GetCityFull(s, f, ip, fail)
      [] op = "Get"          -> Get(s, f, ip, fail)

\* About: the header-derived metadata.
About(s) ==
    [ Timestamp    |-> s.header.timestamp,
      Version      |-> s.header.version,
      ByteIndexEntries |-> s.header.byteIndexLen,
      MainIndexEntries |-> s.header.mainIndexLen,
      BlocksInIndexItem |-> s.header.rangeBlocks,
      IPDatabaseItems |-> s.header.dbItems,
      IDLength     |-> s.header.idLen,
      DBBlockSize  |-> s.blockSize,
      PackFormatStrings |-> s.packFormats,
      DBBeginOffset |-> s.dbBegin,
      RegionsBeginOffset |-> s.regionsBegin,
      CitiesBeginOffset |-> s.citiesBegin,
      CityMeta     |-> <<s.header.maxCity, s.header.citySize>>,
      RegionMeta   |-> <<s.header.maxRegion, s.header.regionSize>>,
      CountryMeta  |-> <<s.header.maxCountry, s.header.countrySize>> ]

\* ------------------------------------------------------------------------
\* Database files: the layout New, getNum and readData read
\* ------------------------------------------------------------------------
(***************************************************************************)
(* A database is described by its header fields, its blocks (the first IP  *)
(* of each range, as four bytes, and the payload), its pack formats and    *)
(* its regions and cities sections; FileOf lays the description out as     *)
(* the file that New reads: header, pack formats, byte index, main index,  *)
(* DB blocks, regions, cities.                                             *)
(***************************************************************************)

\* One "type:name" part of a pack format.
Part(tf, name) == [tf |-> tf, name |-> name, colon |-> TRUE]

\* The length in bytes of a format string and of the blob of formats
\* (parts joined by "/", formats by NUL).
RECURSIVE FormatLen(_)
FormatLen(format) ==
    IF Len(format) = 0 THEN 0
    ELSE Len(format[1].tf) + 1 + Len(format[1].name)
         + (IF Len(format) > 1 THEN 1 ELSE 0) + FormatLen(Tail(format))

RECURSIVE PackLen(_)
PackLen(pack) ==
    IF Len(pack) = 0 THEN 0
    ELSE FormatLen(pack[1]) + (IF Len(pack) > 1 THEN 1 ELSE 0) + PackLen(Tail(pack))

\* The 40 header bytes parseHeader decodes (h: the fields as integers).
HeaderBytes(h) ==
    dbSig \o <<h.version>> \o PutBigEndian(h.timestamp, 4)
    \o <<h.dbType, h.charset, h.byteIndexLen>>
    \o PutBigEndian(h.mainIndexLen, 2) \o PutBigEndian(h.rangeBlocks, 2)
    \o PutBigEndian(h.dbItems, 4) \o <<h.idLen>>
    \o PutBigEndian(h.maxRegion, 2) \o PutBigEndian(h.maxCity, 2)
    \o PutBigEndian(h.regionSize, 4) \o PutBigEndian(h.citySize, 4)
    \o PutBigEndian(h.maxCountry, 2) \o PutBigEndian(h.countrySize, 4)
    \o PutBigEndian(h.packSize, 2)

\* Position b of the byte index: the number of blocks whose first IP byte
\* is at most b.
ByteIndexOf(blocks, b) == Cardinality({k \in 1..Len(blocks) : blocks[k].ip[1] <= b})

\* ceil(n / d).
CeilDiv(n, d) == (n + d - 1) \div d

\* Position p of the main index: the first IP of the block group that
\* starts at block p * rangeBlocks.
MainIndexOf(blocks, rangeBlocks, p) == blocks[p * rangeBlocks + 1].ip

\* One DB block: the last three bytes of the first IP, then the payload.
BlockBytes(blk, idLen) == SubSeq(blk.ip, 2, 4) \o PutBigEndian(blk.id, idLen)

\* The file of a database description d.
FileOf(d) ==
    LET dbItems      == Len(d.blocks)
        mainIndexLen == CeilDiv(dbItems, d.rangeBlocks)
        h == [ version |-> 22, timestamp |-> 1700000000, dbType |-> d.dbType,
               charset |-> 0, byteIndexLen |-> d.byteIndexLen,
               mainIndexLen |-> mainIndexLen, rangeBlocks |-> d.rangeBlocks,
               dbItems |-> dbItems, idLen |-> d.idLen,
               maxRegion |-> d.maxRegion, maxCity |-> d.maxCity,
               regionSize |-> Len(d.regions), citySize |-> Len(d.cities),
               maxCountry |-> d.maxCountry, countrySize |-> d.countrySize,
               packSize |-> PackLen(d.pack) ]
    IN
    [ hdr  |-> HeaderBytes(h),
      pack |-> d.pack,
      body |-> FlattenFixed([b \in 1..d.byteIndexLen |->
                                 PutBigEndian(ByteIndexOf(d.blocks, b - 1), 4)], 4)
               \o FlattenFixed([p \in 1..mainIndexLen |->
                                 MainIndexOf(d.blocks, d.rangeBlocks, p - 1)], 4)
               \o FlattenFixed([k \in 1..dbItems |-> BlockBytes(d.blocks[k], d.idLen)],
                               dbBlockLenOffset + d.idLen)
               \o d.regions \o d.cities ]

\* ------------------------------------------------------------------------
\* The databases and the inputs of the model
\* ------------------------------------------------------------------------

\* The pack formats of a city database: country, region, city.
CountryFormat ==
    << Part(<<"T">>, "id"), Part(<<"c", "2">>, "iso"),
       Part(<<"n", "2">>, "lat"), Part(<<"n", "2">>, "lon"),
       Part(<<"b">>, "name_ru"), Part(<<"b">>, "name_en") >>

RegionFormat ==
    << Part(<<"M">>, "country_seek"), Part(<<"S">>, "id"),
       Part(<<"b">>, "name_ru"), Part(<<"b">>, "name_en"), Part(<<"b">>, "iso") >>

CityFormat ==
    << Part(<<"M">>, "region_seek"), Part(<<"T">>, "country_id"),
       Part(<<"M">>, "id"), Part(<<"N", "5">>, "lat"), Part(<<"N", "5">>, "lon"),
       Part(<<"b">>, "name_ru"), Part(<<"b">>, "name_en") >>

CityPack == <<CountryFormat, RegionFormat, CityFormat>>

\* Records as these formats store them (little-endian fields, NUL-ended
\* strings).
CountryRecord(id, iso, lat, lon, ru, en) ==
    <<id>> \o iso \o PutLittleEndian(lat, 2) \o PutLittleEndian(lon, 2)
    \o ru \o <<0>> \o en \o <<0>>

RegionRecord(countrySeek, id, ru, en, iso) ==
    PutLittleEndian(countrySeek, 3) \o PutLittleEndian(id, 2)
    \o ru \o <<0>> \o en \o <<0>> \o iso

CityRecord(regionSeek, countryID, id, lat, lon, ru, en) ==
    PutLittleEndian(regionSeek, 3) \o <<countryID>> \o PutLittleEndian(id, 3)
    \o PutLittleEndian(lat, 4) \o PutLittleEndian(lon, 4)
    \o ru \o <<0>> \o en \o <<0>>

\* The offset of the i-th record of a section that starts with pad bytes.
RECURSIVE SeekOf(_, _, _)
SeekOf(recs, pad, i) ==
    IF i = 1 THEN pad ELSE SeekOf(recs, pad, i - 1) + Len(recs[i - 1])

\* The regions section: a pad byte (seek 0 means "no region"); a region
\* with a country seek; one without; one with a country seek whose last
\* string runs to the section's end without its NUL.
RegionRecords ==
    << RegionRecord(1, 50, <<114>>, <<82>>, <<88, 0>>),
       RegionRecord(0, 51, <<115>>, <<83>>, <<89, 0>>),
       RegionRecord(1, 52, <<113>>, <<81>>, <<90>>) >>

Regions == <<0>> \o Flatten(RegionRecords)

RegionSeek(i) == SeekOf(RegionRecords, 1, i)

\* The cities section: a pad byte, the country record (id 7, at seek 1),
\* then the city records; the last one is cut in its lat field.
CountryRecords == << CountryRecord(7, <<65, 73>>, 1825, 6305, <<114>>, <<65>>) >>

CityRecords ==
    << \* region -> country record (id 7), own country_id 5
       CityRecord(RegionSeek(1), 5, 100, 5575000, 3761000, <<109>>, <<77>>),
       \* neither region nor country
       CityRecord(0, 0, 101, 100000, 200000, <<110>>, <<78>>),
       \* region without a country seek
       CityRecord(RegionSeek(2), 9, 102, 4850000, 235000, <<112>>, <<80>>),
       \* region seek beyond the regions section
       CityRecord(Len(Regions) + 7, 3, 103, 300000, 400000, <<111>>, <<79>>),
       \* region at the end of the regions section
       CityRecord(RegionSeek(3), 4, 104, 500000, 600000, <<107>>, <<75>>),
       \* the section ends inside this record's lat field
       SubSeq(CityRecord(0, 6, 105, 700000, 800000, <<108>>, <<76>>), 1, 10) >>

Cities == <<33>> \o Flatten(CountryRecords) \o Flatten(CityRecords)

CitySeek(i) == SeekOf(CityRecords, 1 + Len(Flatten(CountryRecords)), i)

\* The first IPs of the blocks: five in bucket 1, two in bucket 2, none in
\* bucket 3, one in the reserved bucket 10, one in bucket 11.
BlockIPs ==
    << <<1, 0, 0, 0>>, <<1, 0, 1, 0>>, <<1, 2, 0, 0>>, <<1, 2, 3, 0>>,
       <<1, 200, 0, 0>>, <<2, 0, 0, 0>>, <<2, 128, 0, 0>>,
       <<10, 0, 0, 0>>, <<11, 0, 0, 0>> >>

\* The same with blocks in buckets 127 and 128, for a full-size byte index.
WideBlockIPs == BlockIPs \o << <<127, 0, 0, 0>>, <<128, 0, 0, 0>> >>

Blocks(ips, ids) == [k \in 1..Len(ips) |-> [ip |-> ips[k], id |-> ids[k]]]

\* Country ids as payloads; the third is 255 where one byte holds the id and
\* 300 where the id is wider.
CountryIDs(idLen) ==
    <<5, 3, IF idLen = 1 THEN 255 ELSE 300, 1, 7, 9, 2, 4, 6, 8, 10>>

\* City seeks as payloads: the six records, the section's end, beyond it.
CitySeeks ==
    << CitySeek(1), CitySeek(2), CitySeek(3), CitySeek(4), CitySeek(5),
       CitySeek(6), Len(Cities), CitySeek(1), Len(Cities) + 83 >>

CountryDB(idLen, rangeBlocks, ips, byteIndexLen) ==
    [ dbType |-> 1, byteIndexLen |-> byteIndexLen, rangeBlocks |-> rangeBlocks,
      idLen |-> idLen, blocks |-> Blocks(ips, CountryIDs(idLen)),
      pack |-> <<>>, maxRegion |-> 0, maxCity |-> 0, maxCountry |-> 0,
      countrySize |-> 0, regions |-> <<>>, cities |-> <<>> ]

CityDB(rangeBlocks) ==
    [ dbType |-> 3, byteIndexLen |-> 12, rangeBlocks |-> rangeBlocks,
      idLen |-> 3, blocks |-> Blocks(BlockIPs, CitySeeks),
      pack |-> CityPack, maxRegion |-> 11, maxCity |-> 19, maxCountry |-> 11,
      countrySize |-> Len(Flatten(CountryRecords)),
      regions |-> Regions, cities |-> Cities ]

\* rangeBlocks 2 makes bucket 1 (five blocks) go through the main index;
\* rangeBlocks 8 makes every bucket searched directly.
RangeBlocksChoices == {2, 8}

Files ==
    {FileOf(CountryDB(idLen, r, BlockIPs, 12)) : idLen \in 1..4, r \in RangeBlocksChoices}
    \cup {FileOf(CountryDB(1, 2, WideBlockIPs, 129))}
    \cup {FileOf(CityDB(r)) : r \in RangeBlocksChoices}

Modes == {ModeFile, ModeMemory, ModeBatch, ModeMemory + ModeBatch}

\* strconv.Itoa of a byte, as a character sequence.
RECURSIVE Itoa(_)
Itoa(n) == IF n < 10 THEN <<Digits[n + 1]>> ELSE Itoa(n \div 10) \o <<Digits[(n % 10) + 1]>>

\* The dotted quad of four bytes.
IPString(q) == Itoa(q[1]) \o <<".">> \o Itoa(q[2]) \o <<".">> \o Itoa(q[3]) \o <<".">> \o Itoa(q[4])

Quads ==
    { <<0, 1, 2, 3>>, <<1, 0, 0, 0>>, <<1, 0, 0, 5>>, <<1, 0, 1, 0>>, <<1, 2, 0, 0>>,
      <<1, 2, 3, 0>>, <<1, 2, 3, 55>>, <<1, 200, 0, 0>>, <<1, 255, 255, 255>>,
      <<2, 0, 0, 0>>, <<2, 128, 0, 0>>, <<2, 200, 0, 0>>, <<3, 0, 0, 0>>,
      <<10, 0, 0, 1>>, <<11, 0, 0, 0>>, <<11, 5, 5, 5>>, <<12, 0, 0, 0>>,
      <<127, 0, 0, 1>>, <<128, 0, 0, 0>>, <<200, 1, 1, 1>>, <<255, 255, 255, 255>> }

\* Strings that are no IPv4 address.
BadStrings ==
    { <<"n", "o", "t", "-", "a", "n", "-", "i", "p">>, <<>>,
      <<"1", ".", "2", ".", "3">>, <<"2", "5", "6", ".", "1", ".", "1", ".", "1">>,
      <<"0", "1", ".", "2", ".", "3", ".", "4">>, <<":", ":", "1">> }

IPStrings ==
    {IPString(q) : q \in Quads}
    \cup {MappedPrefix \o IPString(q) : q \in {<<1, 2, 0, 0>>, <<10, 0, 0, 1>>}}
    \cup BadStrings

\* The sections whose read the device may fail during one call.
Faults == {{}, {"db"}, {"city"}, {"region"}, {"country"}}

\* The inputs of unpack: every prefix of one record of each kind.
UnpackData ==
    UNION {{SubSeq(rec, 1, n) : n \in 0..Len(rec)} :
              rec \in {CityRecords[1], RegionRecords[1], CountryRecords[1]}}

UnpackFormats == {CountryFormat, RegionFormat, CityFormat}

\* ------------------------------------------------------------------------
\* The state machine: one engine on one file, one call at a time
\* ------------------------------------------------------------------------
(***************************************************************************)
(* file : the database file on disk (it never changes)                     *)
(* eng  : the *SxGeo that New returned                                     *)
(* pc   : "idle" between calls, "done" when a call has returned            *)
(* last : the call that returned last: its name, its arguments and res,    *)
(*        what it returned                                                 *)
(***************************************************************************)
VARIABLES file, eng, pc, last

vars == <<file, eng, pc, last>>

NoCall == [op |-> "none"]

Init ==
    /\ pc = "idle"
    /\ last = NoCall
    /\ \E f \in Files, mode \in Modes :
          /\ New(f, mode).ok
          /\ file = f
          /\ eng = New(f, mode).s

Returned(op, ip, fail, res) == [op |-> op, ip |-> ip, fail |-> fail, res |-> res]

CallGetCountryID(ip, fail) ==
    /\ pc = "idle"
    /\ last' = Returned("GetCountryID", ip, fail, GetCountryID(eng, file, ip, fail))
    /\ pc' = "done"
    /\ UNCHANGED <<file, eng>>

CallGetCountry(ip, fail) ==
    /\ pc = "idle"
    /\ last' = Returned("GetCountry", ip, fail, GetCountry(eng, file, ip, fail))
    /\ pc' = "done"
    /\ UNCHANGED <<file, eng>>

CallGetCity_DropsHandleOnError(ip, fail) ==
    /\ pc = "idle"
    /\ last' = Returned("GetCity", ip, fail, GetCity(eng, file, ip, fail))
    /\ pc' = "done"
    /\ eng' = IF last'.res.err # Nil THEN Close(eng) ELSE eng
    /\ UNCHANGED file

CallGetCity(ip, fail) ==
    /\ pc = "idle"
    /\ last' = Returned("GetCity", ip, fail, GetCity(eng, file, ip, fail))
    /\ pc' = "done"
    /\ UNCHANGED <<file, eng>>

CallGetCityFull(ip, fail) ==
    /\ pc = "idle"
    /\ last' = Returned("GetCityFull", ip, fail, GetCityFull(eng, file, ip, fail))
    /\ pc' = "done"
    /\ UNCHANGED <<file, eng>>

CallGet(ip, fail) ==
    /\ pc = "idle"
    /\ last' = Returned("Get", ip, fail, Get(eng, file, ip, fail))
    /\ pc' = "done"
    /\ UNCHANGED <<file, eng>>

CallAbout ==
    /\ pc = "idle"
    /\ last' = [op |-> "About", res |-> About(eng)]
    /\ pc' = "done"
    /\ UNCHANGED <<file, eng>>

CallClose(closeErr) ==
    /\ pc = "idle"
    /\ eng' = Close(eng)
    /\ last' = [op |-> "Close", res |-> [err |-> CloseError(eng, closeErr)]]
    /\ pc' = "done"
    /\ UNCHANGED file

\* unpack applied to a format and a buffer (the function is internal; the
\* call stands for readData's use of it).
CallUnpack(format, data) ==
    /\ pc = "idle"
    /\ last' = [op |-> "unpack", format |-> format, data |-> data,
                res |-> unpack(format, data)]
    /\ pc' = "done"
    /\ UNCHANGED <<file, eng>>

\* The caller has taken the result; the engine is ready for the next call.
Return ==
    /\ pc = "done"
    /\ pc' = "idle"
    /\ last' = NoCall
    /\ UNCHANGED <<file, eng>>

Next ==
    \/ \E ip \in IPStrings, fail \in Faults : CallGetCountryID(ip, fail)
    \/ \E ip \in IPStrings, fail \in Faults : CallGetCountry(ip, fail)
    \/ \E ip \in IPStrings, fail \in Faults : CallGetCity(ip, fail)
    \/ \E ip \in IPStrings, fail \in Faults : CallGetCityFull(ip, fail)
    \/ \E ip \in IPStrings, fail \in Faults : CallGet(ip, fail)
    \/ CallAbout
    \/ \E closeErr \in BOOLEAN : CallClose(closeErr)
    \/ \E format \in UnpackFormats, data \in UnpackData : CallUnpack(format, data)
    \/ Return

Spec == Init /\ [][Next]_vars

\* ------------------------------------------------------------------------
\* The internal functions, applied to inputs of their own
\* ------------------------------------------------------------------------

\* The numeric field types of unpack, as one-field formats named x.
NumberFormats ==
    {<<Part(<<t>>, "x")>> : t \in {"t", "T", "s", "S", "m", "M", "i", "I", "f", "d"}}
    \cup {<<Part(<<t, "0">>, "x")>> : t \in {"n", "N"}}
    \cup {<<Part(<<t, "2">>, "x")>> : t \in {"n", "N"}}

\* Bytes of fields: every sequence of one to four of these bytes ...
ByteChoices == {0, 1, 127, 128, 255}

\* ... and float32s (1, 255, 256, 0.5, -1, 2^32, the largest below 2^32,
\* NaN, -0, +Inf, a denormal) and float64s (1, 255, 255 + 2^-45, 256,
\* 2^32 - 1, 2^32, 0.5, -1, NaN, -0, 65536.5).
FloatData ==
    { <<0, 0, 128, 63>>, <<0, 0, 127, 67>>, <<0, 0, 128, 67>>, <<0, 0, 0, 63>>,
      <<0, 0, 128, 191>>, <<0, 0, 128, 79>>, <<255, 255, 127, 79>>,
      <<0, 0, 192, 127>>, <<0, 0, 0, 128>>, <<0, 0, 128, 127>>, <<1, 0, 0, 0>>,
      <<0, 0, 0, 0, 0, 0, 240, 63>>, <<0, 0, 0, 0, 0, 224, 111, 64>>,
      <<1, 0, 0, 0, 0, 224, 111, 64>>, <<0, 0, 0, 0, 0, 0, 112, 64>>,
      <<0, 0, 224, 255, 255, 255, 239, 65>>, <<0, 0, 0, 0, 0, 0, 240, 65>>,
      <<0, 0, 0, 0, 0, 0, 224, 63>>, <<0, 0, 0, 0, 0, 0, 240, 191>>,
      <<0, 0, 0, 0, 0, 0, 248, 127>>, <<0, 0, 0, 0, 0, 0, 0, 128>>,
      <<0, 0, 0, 0, 8, 0, 240, 64>> }

NumberData ==
    FloatData \cup UNION {[1..w -> ByteChoices] : w \in 1..4}

\* The getters applied to the map m that unpack made of one field.
GetUintOf(format, data, m) ==
    [ op |-> "getUint", format |-> format, data |-> data, m |-> m,
      u8 |-> getUint8(m, "x"), u32 |-> getUint32(m, "x") ]

\* readData's and parseCity's use of the getters: a field of the type
\* format names is unpacked from exactly its bytes and read with getUint8
\* and getUint32.
CallGetUint(format, data) ==
    /\ pc = "idle"
    /\ Len(data) = FixedWidth(format[1].tf[1])
    /\ last' = GetUintOf(format, data, unpack(format, data).m)
    /\ pc' = "done"
    /\ UNCHANGED <<file, eng>>

\* Header bytes: every combination of small, large and zero values of the
\* five critical fields ...
HeaderGrid ==
    { HeaderBytes([ version |-> 22, timestamp |-> 1700000000, dbType |-> 1,
                    charset |-> 0, byteIndexLen |-> b, mainIndexLen |-> m,
                    rangeBlocks |-> r, dbItems |-> n, idLen |-> i,
                    maxRegion |-> 0, maxCity |-> 0, regionSize |-> 0,
                    citySize |-> 0, maxCountry |-> 0, countrySize |-> 0,
                    packSize |-> 0 ]) :
        b \in {0, 1, 224}, m \in {0, 1, 256, 1775}, r \in {0, 1, 512},
        n \in {0, 1, 65536, 16777216}, i \in {0, 1, 3, 4, 5, 255} }

\* ... a header whose bytes after the signature all differ (id_len 3) ...
DistinctHeader == dbSig \o [i \in 1..37 |-> IF i = 17 THEN 3 ELSE 100 + i]

\* ... its prefixes, the header with bytes after it, and the header under
\* other signatures.
HeaderData ==
    HeaderGrid
    \cup {SubSeq(DistinctHeader, 1, n) : n \in 0..Len(DistinctHeader)}
    \cup {DistinctHeader \o <<1, 2, 3>>}
    \cup {sig \o SubSeq(DistinctHeader, 4, 40) :
            sig \in {<<83, 120, 103>>, <<115, 120, 71>>, <<83, 88, 71>>, <<0, 0, 0>>}}

\* New's use of parseHeader, on header bytes of any content.
CallParseHeader(data) ==
    /\ pc = "idle"
    /\ last' = [op |-> "parseHeader", data |-> data, res |-> parseHeader(data)]
    /\ pc' = "done"
    /\ UNCHANGED <<file, eng>>

\* decodeID on a payload of any length up to five bytes.
IdByteChoices == {1, 128, 255}

IdBytes == UNION {[1..n -> IdByteChoices] : n \in 0..5}

CallDecodeID(idBytes) ==
    /\ pc = "idle"
    /\ last' = [op |-> "decodeID", idBytes |-> idBytes, res |-> decodeID(eng, idBytes)]
    /\ pc' = "done"
    /\ UNCHANGED <<file, eng>>

\* searchIdx on addresses at, between, below and above the entries of the
\* main index and on any range: min from 0 to beyond the index's end, max
\* likewise or the largest uint32.
MaxIdxPos == 11

IdxIPs ==
    { <<0, 1, 2, 3>>, <<1, 0, 0, 0>>, <<1, 0, 0, 5>>, <<1, 2, 0, 0>>, <<1, 200, 0, 0>>,
      <<2, 128, 0, 0>>, <<3, 0, 0, 0>>, <<11, 0, 0, 0>>, <<127, 0, 0, 1>>,
      <<128, 0, 0, 0>>, <<255, 255, 255, 255>> }

MaxUint32 == <<Limb - 1, Limb - 1>>

CallSearchIdx(ipBytes, min, max) ==
    /\ pc = "idle"
    /\ last' = [op |-> "searchIdx", ipBytes |-> ipBytes, min |-> min, max |-> max,
                res |-> searchIdx(eng, ipBytes, Big(min), max)]
    /\ pc' = "done"
    /\ UNCHANGED <<file, eng>>

\* The engines the functions are applied on: payloads of one to four bytes,
\* a main index of one entry per block and one of one entry per two blocks,
\* read from the file and held parsed.
FnEngines ==
    { <<FileOf(CountryDB(1, 1, WideBlockIPs, 129)), ModeFile>>,
      <<FileOf(CountryDB(3, 1, WideBlockIPs, 129)), ModeMemory>>,
      <<FileOf(CountryDB(2, 2, BlockIPs, 12)), ModeFile>>,
      <<FileOf(CountryDB(4, 2, BlockIPs, 12)), ModeMemory>> }

FnInit ==
    /\ pc = "idle"
    /\ last = NoCall
    /\ \E e \in FnEngines :
          /\ New(e[1], e[2]).ok
          /\ file = e[1]
          /\ eng = New(e[1], e[2]).s

FnNext ==
    \/ \E format \in NumberFormats, data \in NumberData : CallGetUint(format, data)
    \/ \E data \in HeaderData : CallParseHeader(data)
    \/ \E idBytes \in IdBytes : CallDecodeID(idBytes)
    \/ \E ipBytes \in IdxIPs, min \in 0..MaxIdxPos,
          max \in {Big(h) : h \in 0..MaxIdxPos} \cup {MaxUint32} :
          CallSearchIdx(ipBytes, min, max)
    \/ Return

FnSpec == FnInit /\ [][FnNext]_vars

\* ------------------------------------------------------------------------
\* searchDb, applied to a sorted slice of blocks and ranges of its own
\* ------------------------------------------------------------------------

\* The 3-byte addresses of the slice's blocks, ascending (one repeated).
SlicePrefixes ==
    << <<0, 0, 5>>, <<0, 1, 0>>, <<0, 1, 0>>, <<0, 2, 0>>, <<1, 0, 0>>, <<2, 3, 0>>,
       <<2, 3, 4>>, <<9, 0, 0>>, <<100, 0, 0>>, <<200, 0, 0>>, <<255, 255, 255>> >>

\* The slice for engine s: block k (from 1) carries the payload k.
SliceData(s) ==
    FlattenFixed([k \in 1..Len(SlicePrefixes) |->
                     SlicePrefixes[k] \o PutBigEndian(k, s.header.idLen)],
                 s.blockSize)

\* The last three bytes of the addresses searched for.
SliceSuffixes ==
    { <<0, 0, 0>>, <<0, 0, 5>>, <<0, 1, 0>>, <<0, 1, 7>>, <<2, 3, 0>>, <<2, 3, 3>>,
      <<50, 0, 0>>, <<255, 255, 254>>, <<255, 255, 255>> }

\* The largest max of a range: one beyond the slice's blocks.
MaxSliceIdx == 12

CallSearchDb(ipSuffix, min, max) ==
    /\ pc = "idle"
    /\ last' = [op |-> "searchDb", ipBytes |-> <<1>> \o ipSuffix, min |-> min, max |-> max,
                res |-> searchDb(eng, SliceData(eng), <<1>> \o ipSuffix, min, max)]
    /\ pc' = "done"
    /\ UNCHANGED <<file, eng>>

DbNext ==
    \/ \E ipSuffix \in SliceSuffixes, min \in 0..MaxSliceIdx, max \in 0..MaxSliceIdx :
          CallSearchDb(ipSuffix, min, max)
    \/ Return

DbSpec == FnInit /\ [][DbNext]_vars

\* ------------------------------------------------------------------------
\* New on headers with large block counts
\* ------------------------------------------------------------------------

\* Block counts from 1 to 2^32 - 1, among them the last whose DB section is
\* below 2^32 bytes and the first whose is not, for block sizes 4 (2^30 - 1,
\* 2^30) and 7 (613566756, 613566757).
OpenDbItems ==
    { <<0, 1>>, <<0, 9>>, <<9362, 18724>>, <<9362, 18725>>, <<16383, 65535>>,
      <<16384, 0>>, <<32768, 0>>, <<65535, 65535>> }

OpenRegionSizes == {0, 5}

\* A country file of one block by its header, holding a byte index of two
\* entries, a main index of one and bytes more bytes.
OpenFile(idLen, regionSize, bytes) ==
    [ hdr  |-> HeaderBytes([ version |-> 22, timestamp |-> 1700000000, dbType |-> 1,
                             charset |-> 0, byteIndexLen |-> 2, mainIndexLen |-> 1,
                             rangeBlocks |-> 1, dbItems |-> 1, idLen |-> idLen,
                             maxRegion |-> 0, maxCity |-> 0, regionSize |-> regionSize,
                             citySize |-> 0, maxCountry |-> 0, countrySize |-> 0,
                             packSize |-> 0 ]),
      pack |-> <<>>,
      body |-> [i \in 1..(12 + bytes) |-> 0] ]

\* The same with the header's db_items field (bytes 15..18) set to a uint32.
OpenFileOf(dbItems, idLen, regionSize, bytes) ==
    [OpenFile(idLen, regionSize, bytes) EXCEPT
        !.hdr = [i \in 1..dbHeaderLen |->
                    IF i \in 16..19 THEN PutBigEndian32(dbItems)[i - 15] ELSE @[i]]]

OpenFiles ==
    { OpenFileOf(dbItems, idLen, regionSize, 16) :
        dbItems \in OpenDbItems, idLen \in 1..4, regionSize \in OpenRegionSizes }

\* No engine: New was not called yet or returned an error.
NoEngine == [f |-> "nil", opened |-> FALSE]

OpenInit ==
    /\ pc = "idle"
    /\ last = NoCall
    /\ file \in OpenFiles
    /\ eng = NoEngine

\* New(dbFile, mode) on the file.
CallNew(mode) ==
    /\ pc = "idle"
    /\ last' = [op |-> "New", mode |-> mode, ok |-> New(file, mode).ok]
    /\ eng' = IF New(file, mode).ok THEN New(file, mode).s ELSE NoEngine
    /\ pc' = "done"
    /\ UNCHANGED file

OpenNext ==
    \/ \E mode \in Modes : CallNew(mode)
    \/ Return

OpenSpec == OpenInit /\ [][OpenNext]_vars

\* ------------------------------------------------------------------------
\* getNum on databases with arbitrary index contents
\* ------------------------------------------------------------------------

\* The database whose indexes are overwritten: nine blocks with payloads of
\* one byte, a byte index of 12 entries, a main index of 5.
IndexBaseDB == CountryDB(1, 2, BlockIPs, 12)

\* Values of a byte-index entry: below, at and beyond db_items = 9.
IndexValues ==
    { <<0, 0>>, <<0, 3>>, <<0, 9>>, <<0, 12>>, <<0, 100>>, <<0, 101>>, <<65535, 65535>> }

\* Contents of the main index: as built, and every byte 0 or every byte 255.
MainIndexFills == {-1, 0, 255}

\* body with its bytes from offset off on replaced by bytes.
Overwrite(body, off, bytes) ==
    [i \in 1..Len(body) |->
        IF i > off /\ i <= off + Len(bytes) THEN bytes[i - off] ELSE body[i]]

\* The file of IndexBaseDB with byte-index entries 1 and 2 (the range of
\* first octet 2, the end of octet 1's and the start of octet 3's) set to
\* e1 and e2, and the main index filled.
IndexFile(e1, e2, fill) ==
    LET f  == FileOf(IndexBaseDB)
        b1 == Overwrite(f.body, 4, PutBigEndian32(e1) \o PutBigEndian32(e2))
        b2 == IF fill < 0 THEN b1
              ELSE Overwrite(b1, 4 * IndexBaseDB.byteIndexLen,
                             [i \in 1..(4 * CeilDiv(Len(IndexBaseDB.blocks),
                                                    IndexBaseDB.rangeBlocks)) |-> fill])
    IN  [f EXCEPT !.body = b2]

IndexFiles ==
    { IndexFile(e1, e2, fill) : e1 \in IndexValues, e2 \in IndexValues,
                                fill \in MainIndexFills }

IndexIPs ==
    { IPString(q) : q \in { <<1, 0, 0, 0>>, <<1, 2, 3, 4>>, <<1, 255, 255, 255>>,
                            <<2, 0, 0, 0>>, <<2, 128, 0, 0>>, <<2, 255, 255, 255>>,
                            <<3, 0, 0, 0>>, <<11, 0, 0, 0>> } }

IndexInit ==
    /\ pc = "idle"
    /\ last = NoCall
    /\ \E f \in IndexFiles, mode \in Modes :
          /\ New(f, mode).ok
          /\ file = f
          /\ eng = New(f, mode).s

\* The runtime could not allocate the read buffer.
errOutOfMemory == "fatal error: out of memory"

\* In file mode getNum allocates (searchMax - searchMin) * blockSize bytes,
\* the difference a uint32: with searchMax < searchMin that is 16 GiB or
\* more.
HugeBuffer(s, w) == ~s.memoryMode /\ w.err = Nil /\ Gt(w.searchMin, w.searchMax)

\* getNum(ipStr); alloc: whether a buffer of 16 GiB or more can be had.
GetNumAlloc(s, f, ipStr, alloc) ==
    IF /\ ip2long(ipStr).ok /\ ~IsReserved(s, ip2long(ipStr).ip[1])
       /\ HugeBuffer(s, SearchWindow(s, ip2long(ipStr).ip)) /\ ~alloc
    THEN GetNumResult(NumError(errOutOfMemory), 0, {})
    ELSE getNum(s, f, ipStr, FALSE)

CallGetNum(ip, alloc) ==
    /\ pc = "idle"
    /\ last' = [op |-> "getNum", ip |-> ip, alloc |-> alloc,
                res |-> GetNumAlloc(eng, file, ip, alloc)]
    /\ pc' = "done"
    /\ UNCHANGED <<file, eng>>

IndexNext ==
    \/ \E ip \in IndexIPs, alloc \in BOOLEAN : CallGetNum(ip, alloc)
    \/ Return

IndexSpec == IndexInit /\ [][IndexNext]_vars

\* ------------------------------------------------------------------------
\* Hand-crafted databases
\* ------------------------------------------------------------------------

\* A country database of one block with payload 1: the block's address
\* bytes are the last three of ip.
SingleBlockDB(ip, idLen) ==
    [ dbType |-> 1, byteIndexLen |-> 12, rangeBlocks |-> 1,
      idLen |-> idLen, blocks |-> <<[ip |-> ip, id |-> 1]>>,
      pack |-> <<>>, maxRegion |-> 0, maxCity |-> 0, maxCountry |-> 0,
      countrySize |-> 0, regions |-> <<>>, cities |-> <<>> ]

\* A city database of one block (1.2.3.0, seek 1) and one city record with
\* region_seek 0 and country_id 0, of which the cities section holds the
\* first n bytes after a pad byte.
CraftedCityDB(n) ==
    [ dbType |-> 3, byteIndexLen |-> 12, rangeBlocks |-> 1,
      idLen |-> 3, blocks |-> <<[ip |-> <<1, 2, 3, 0>>, id |-> 1]>>,
      pack |-> CityPack, maxRegion |-> 11, maxCity |-> 19, maxCountry |-> 11,
      countrySize |-> 0, regions |-> Regions,
      cities |-> <<33>> \o SubSeq(CityRecords[2], 1, n) ]

\* The pack formats of a city database whose city format (index 2) is
\* missing, and of one whose city format is the empty string.
PacksWithoutCity ==
    { <<CountryFormat, RegionFormat>>,
      <<CountryFormat, RegionFormat, <<>>, CityFormat>> }

\* A city database of one block (1.2.3.0, seek 1) whose city record (own
\* country_id 5) names a region whose country_seek names the country
\* record (id 7) that follows the city record; the cities section holds the
\* first n bytes of the country record.
CraftedCountryDB(n) ==
    [ dbType |-> 3, byteIndexLen |-> 12, rangeBlocks |-> 1,
      idLen |-> 3, blocks |-> <<[ip |-> <<1, 2, 3, 0>>, id |-> 1]>>,
      pack |-> CityPack, maxRegion |-> 11, maxCity |-> 19, maxCountry |-> 11,
      countrySize |-> n,
      regions |-> <<0>> \o RegionRecord(1 + Len(CityRecords[1]), 50, <<114>>, <<82>>,
                                        <<88, 0>>),
      cities |-> <<33>> \o CityRecords[1] \o SubSeq(CountryRecords[1], 1, n) ]

CraftedFiles ==
    {FileOf(SingleBlockDB(ip, idLen)) :
        ip \in {<<1, 2, 3, 0>>, <<1, 2, 3, 255>>}, idLen \in 1..4}
    \cup {FileOf(CraftedCityDB(n)) : n \in {3, 4, 5, 7, 9, 11, 15, 16, 19}}
    \cup {FileOf([CraftedCityDB(19) EXCEPT !.pack = p]) : p \in PacksWithoutCity}
    \cup {FileOf(CraftedCountryDB(n)) : n \in {1, 4, 6, 11}}

CraftedIPs ==
    {IPString(<<1, 2, 3, d>>) : d \in {0, 1, 55, 254, 255}}
    \cup {IPString(q) : q \in {<<1, 2, 2, 255>>, <<1, 2, 4, 0>>, <<2, 0, 0, 0>>,
                                <<2, 3, 0, 0>>, <<2, 200, 0, 0>>}}

CraftedInit ==
    /\ pc = "idle"
    /\ last = NoCall
    /\ \E f \in CraftedFiles, mode \in Modes :
          /\ New(f, mode).ok
          /\ file = f
          /\ eng = New(f, mode).s

CraftedNext ==
    \/ \E ip \in CraftedIPs, fail \in {{}, {"db"}} : CallGetCountryID(ip, fail)
    \/ \E ip \in CraftedIPs, fail \in {{}, {"db"}} : CallGetCountry(ip, fail)
    \/ \E ip \in CraftedIPs, fail \in {{}, {"db"}} : CallGet(ip, fail)
    \/ \E ip \in CraftedIPs, fail \in {{}, {"db"}} : CallGetCity(ip, fail)
    \/ \E ip \in CraftedIPs, fail \in {{}, {"db"}} : CallGetCityFull(ip, fail)
    \/ Return

CraftedSpec == CraftedInit /\ [][CraftedNext]_vars

\* ------------------------------------------------------------------------
\* Concurrent callers on one resident engine
\* ------------------------------------------------------------------------
(***************************************************************************)
(* Here pc and last are functions of the caller.  A query takes two steps, *)
(* each reading the engine as it is at that moment: the lookup (getNum)    *)
(* and the resolution of its result (readData, parseCity).  The callers'   *)
(* steps interleave freely; everything a query holds between its steps is  *)
(* in its own frame, last[c].                                              *)
(***************************************************************************)

\* The number of callers.
MaxCallers == 2

Callers == 1..MaxCallers

ConcIPs ==
    {IPString(<<1, 0, 0, 0>>), IPString(<<2, 0, 0, 0>>), IPString(<<10, 0, 0, 1>>)}

\* A city database in memory mode, a country database in memory and batch
\* mode.
ConcEngines ==
    { <<FileOf(CityDB(8)), ModeMemory>>,
      <<FileOf(CountryDB(1, 8, BlockIPs, 12)), ModeMemory + ModeBatch>> }

ConcInit ==
    /\ pc = [c \in Callers |-> "idle"]
    /\ last = [c \in Callers |-> NoCall]
    /\ \E e \in ConcEngines :
          /\ New(e[1], e[2]).ok
          /\ file = e[1]
          /\ eng = New(e[1], e[2]).s

\* A query's frame after its lookup: GetCity and GetCityFull (and Get,
\* which delegates) return before any lookup on a country database.
Looked(s, f, op, ip) ==
    IF s.header.maxCity = 0 /\ op \in {"GetCity", "GetCityFull"}
    THEN [op |-> op, ip |-> ip, fail |-> {}, at |-> "done",
          res |-> Result(NilPtr, Nil, {})]
    ELSE [op |-> op, ip |-> ip, fail |-> {}, at |-> "num",
          g |-> getNum(s, f, ip, FALSE)]

\* A query's result from the lookup result g its frame holds.
Resolved(s, f, op, g) ==
    CASE op = "GetCountryID" -> CountryIDOfNum(s, f, {}, g)
      [] op = "GetCountry"   -> CountryOfID(CountryIDOfNum(s, f, {}, g))
      [] op = "GetCity"      -> CityOfNum(s, f, FALSE, {}, g)
      [] op = "GetCityFull"  -> CityOfNum(s, f, TRUE, {}, g)
      [] op = "Get" ->
            IF s.header.maxCity > 0
            THEN Converted("*LocationInfo", CityOfNum(s, f, TRUE, {}, g))
            ELSE Converted("string", CountryOfID(CountryIDOfNum(s, f, {}, g)))

\* Caller c enters a query and does its lookup.
ConcLookup(c, op, ip) ==
    /\ pc[c] = "idle"
    /\ last' = [last EXCEPT ![c] = Looked(eng, file, op, ip)]
    /\ pc' = [pc EXCEPT ![c] = Looked(eng, file, op, ip).at]
    /\ UNCHANGED <<file, eng>>

\* ConcFrame resolving the lookup result of the first caller that is
\* between its two steps, as if the result were kept in the engine.
ConcFrame_SharedLookup(c) ==
    [ op |-> last[c].op, ip |-> last[c].ip, fail |-> {}, at |-> "done",
      res |-> Resolved(eng, file, last[c].op,
                       last[CHOOSE d \in Callers :
                               /\ pc[d] = "num"
                               /\ \A e \in Callers : pc[e] = "num" => d <= e].g) ]

\* The frame of caller c when its query returns.
ConcFrame(c) ==
    [ op |-> last[c].op, ip |-> last[c].ip, fail |-> {}, at |-> "done",
      res |-> Resolved(eng, file, last[c].op, last[c].g) ]

\* Caller c resolves its lookup's result and its query returns.
ConcResolve(c) ==
    /\ pc[c] = "num"
    /\ last' = [last EXCEPT ![c] = ConcFrame(c)]
    /\ pc' = [pc EXCEPT ![c] = "done"]
    /\ UNCHANGED <<file, eng>>

\* Caller c has taken its result and may issue another query.
ConcReturn(c) ==
    /\ pc[c] = "done"
    /\ pc' = [pc EXCEPT ![c] = "idle"]
    /\ last' = [last EXCEPT ![c] = NoCall]
    /\ UNCHANGED <<file, eng>>

ConcNext ==
    \/ \E c \in Callers, op \in {"GetCountry", "GetCountryID", "GetCity", "GetCityFull", "Get"},
          ip \in ConcIPs : ConcLookup(c, op, ip)
    \/ \E c \in Callers : ConcResolve(c)
    \/ \E c \in Callers : ConcReturn(c)

ConcSpec == ConcInit /\ [][ConcNext]_vars

\* ------------------------------------------------------------------------
\* Close, called again and again, among the queries
\* ------------------------------------------------------------------------
(***************************************************************************)
(* Here last also counts the calls of Close so far (closes), and a Close   *)
(* records the engine it was called on (before).                           *)
(***************************************************************************)
MaxCloses == 3

CloseIPs == {IPString(q) : q \in {<<1, 0, 0, 0>>, <<2, 0, 0, 0>>, <<10, 0, 0, 1>>}}

CloseFiles == {FileOf(CityDB(8)), FileOf(CountryDB(1, 8, BlockIPs, 12))}

CloseInit ==
    /\ pc = "idle"
    /\ last = [op |-> "none", closes |-> 0]
    /\ \E f \in CloseFiles, mode \in Modes :
          /\ New(f, mode).ok
          /\ file = f
          /\ eng = New(f, mode).s

CloseCall(closeErr) ==
    /\ pc = "idle"
    /\ last.closes < MaxCloses
    /\ eng' = Close(eng)
    /\ last' = [op |-> "Close", before |-> eng, closes |-> last.closes + 1,
                res |-> [err |-> CloseError(eng, closeErr)]]
    /\ pc' = "done"
    /\ UNCHANGED file

CloseQuery(op, ip) ==
    /\ pc = "idle"
    /\ last' = [op |-> op, ip |-> ip, fail |-> {}, closes |-> last.closes,
                res |-> QueryOf(op, eng, file, ip, {})]
    /\ pc' = "done"
    /\ UNCHANGED <<file, eng>>

CloseReturn ==
    /\ pc = "done"
    /\ pc' = "idle"
    /\ last' = [op |-> "none", closes |-> last.closes]
    /\ UNCHANGED <<file, eng>>

CloseNext ==
    \/ \E closeErr \in BOOLEAN : CloseCall(closeErr)
    \/ \E op \in QueryOps, ip \in CloseIPs : CloseQuery(op, ip)
    \/ CloseReturn

CloseSpec == CloseInit /\ [][CloseNext]_vars

\* ------------------------------------------------------------------------
\* Properties
\* ------------------------------------------------------------------------

\* A query has returned (or panicked).
Queried == pc = "done" /\ last.op \in QueryOps

\* The last call's input is an IPv4 address, and its first byte.
ValidIP == ip2long(last.ip).ok
FirstOctet == ip2long(last.ip).ip[1]

\* The first byte is one the lookup never searches.
ReservedOctet ==
    FirstOctet \in {0, 10, 127} \/ FirstOctet >= eng.header.byteIndexLen

\* The not-found value of each query.
NotFoundValue(op) ==
    CASE op = "GetCountry"   -> ""
      [] op = "GetCountryID" -> BigZero
      [] op = "Get"          -> NilInterface
      [] OTHER               -> NilPtr

\* C1: for an IPv4 string whose first octet is 0, 10 or 127, or is >=
\* header.byteIndexLen, GetCountry, GetCountryID, GetCity and GetCityFull
\* return their not-found value ("" / 0 / nil) with a nil error, in every
\* mode, and read no DB block and no record.
C1_ReservedNotFound ==
    (/\ Queried /\ last.op # "Get"
     /\ ValidIP /\ ReservedOctet)
    => /\ last.res.val = NotFoundValue(last.op)
       /\ last.res.err = Nil
       /\ last.res.io = {}

\* C1's case: GetCityFull of a 10.x address on a city database whose
\* byte index has a bucket 10 with a block in it.
C1_Witness ==
    /\ Queried /\ last.op = "GetCityFull"
    /\ eng.header.maxCity > 0
    /\ ValidIP /\ FirstOctet = 10
    /\ 10 < eng.header.byteIndexLen
    /\ ByteIndexAt(eng, 10) # ByteIndexAt(eng, 9)
    /\ last.res.val = NilPtr /\ last.res.err = Nil /\ last.res.io = {}

\* Two outcomes agree: same value, and both errors or both none.
SameOutcome(a, b) == a.val = b.val /\ (a.err = Nil <=> b.err = Nil)

\* C2: an engine opened in memory mode and one opened in file mode on the
\* same file return the same outcome from every query (same record, same
\* not-found result, same error / no error).
C2_MemoryEqualsFile ==
    (Queried /\ last.fail = {})
    => SameOutcome(QueryOf(last.op, New(file, ModeMemory).s, file, last.ip, {}),
                   QueryOf(last.op, New(file, ModeFile).s, file, last.ip, {}))

\* GetCityFull has returned a record.
FullResolved ==
    /\ Queried /\ last.op = "GetCityFull"
    /\ last.res.err = Nil /\ last.res.val # NilPtr

\* What GetCity returns for the last call's arguments.
CityOfLast == GetCity(eng, file, last.ip, last.fail)

\* C3 as stated: for an IP that resolves to a city record, GetCity and
\* GetCityFull return the same City fields and the same Country.
C3_SameCityAndCountry ==
    FullResolved
    => /\ CityOfLast.err = Nil /\ CityOfLast.val # NilPtr
       /\ CityOfLast.val.City = last.res.val.City
       /\ CityOfLast.val.Country = last.res.val.Country

\* C3 amended: for an IP that resolves to a city record, GetCity and
\* GetCityFull return the same City fields, and the same Country whenever
\* GetCityFull found no region or a region whose country seek is 0; when the
\* region has a country seek, GetCityFull's Country comes from the country
\* record and may differ from GetCity's, which is built from the city's
\* country_id alone.
C3_SameCityCountryUnlessSeek ==
    FullResolved
    => /\ CityOfLast.err = Nil /\ CityOfLast.val # NilPtr
       /\ CityOfLast.val.City = last.res.val.City
       /\ CityOfLast.val.Region = NilPtr
       /\ (\/ last.res.val.Region = NilPtr
           \/ last.res.val.Region.countrySeek = BigZero)
          => CityOfLast.val.Country = last.res.val.Country

\* C3's case: GetCityFull returned a city with a region (which GetCity
\* leaves out) and a country, the region having no country seek.
C3_Witness ==
    /\ FullResolved
    /\ last.res.val.Region # NilPtr
    /\ last.res.val.Region.countrySeek = BigZero
    /\ last.res.val.Country # NilPtr
    /\ CityOfLast.val.Country = last.res.val.Country
    /\ CityOfLast.val.Region = NilPtr

\* The engine can search: its sections are in memory or its file is open.
Usable == eng.memoryMode \/ eng.f = "open"

\* What getNum returns for the last call's address on a working device.
NumOfLast == getNum(eng, file, last.ip, FALSE)

\* The DB blocks as the file holds them: block k (from 0) and its payload.
DbBlock(k) ==
    LET o == (ToInt(eng.dbBegin) - BodyStart(file)) + k * eng.blockSize
    IN  Slice(file.body, o, o + eng.blockSize)

DbPayload(k) == decodeID(eng, Slice(DbBlock(k), dbBlockLenOffset, eng.blockSize)).num

\* Block k lies in the byte index's range of first byte b.
InBucket(k, b) ==
    /\ Le(ByteIndexAt(eng, b - 1), Big(k))
    /\ Lt(Big(k), ByteIndexAt(eng, b))

\* C4: in a database built as the data model says (blocks sorted, byte
\* index cumulative, main index holding the first IP of each block group),
\* for every block k and every IP whose first octet selects k's bucket and
\* whose last three octets equal bytes 0..2 of block k, getNum returns the
\* payload of block k, with or without main-index narrowing.
C4_BoundaryMapsToBlock ==
    (Queried /\ Usable /\ ValidIP /\ ~ReservedOctet)
    => \A k \in 0..(ToInt(eng.header.dbItems) - 1) :
          (/\ InBucket(k, FirstOctet)
           /\ Slice(DbBlock(k), 0, dbBlockLenOffset) = Slice(ip2long(last.ip).ip, 1, 4))
          => /\ NumOfLast.err = Nil
             /\ NumOfLast.num = DbPayload(k)

\* getNum of the address q yields a block.
YieldsBlock(g) == g.err = Nil /\ g.blk >= 0

\* The addresses of the model after the last call's, in the same bucket.
LaterInBucket ==
    {q \in Quads : /\ q[1] = FirstOctet
                   /\ Lt(BigEndian32(ip2long(last.ip).ip), BigEndian32(q))}

\* C5 as stated: for two IPs a < b with the same first octet that both
\* yield a block, the payload returned for a is <= the payload for b.
C5_PayloadMonotone ==
    (Queried /\ Usable /\ ValidIP /\ ~ReservedOctet /\ YieldsBlock(NumOfLast))
    => \A q \in LaterInBucket :
          YieldsBlock(getNum(eng, file, IPString(q), FALSE))
          => Le(NumOfLast.num, getNum(eng, file, IPString(q), FALSE).num)

\* C5 amended: in a database whose blocks are sorted by IP and whose main
\* index is non-decreasing, for two IPs a < b with the same first octet
\* that both yield a block, the index of the block selected for a is <= the
\* index of the block selected for b; the payloads are ordered the same way
\* only where the database stores non-decreasing payloads.
C5_BlockMonotone ==
    (Queried /\ Usable /\ ValidIP /\ ~ReservedOctet /\ YieldsBlock(NumOfLast))
    => \A q \in LaterInBucket :
          YieldsBlock(getNum(eng, file, IPString(q), FALSE))
          => NumOfLast.blk <= getNum(eng, file, IPString(q), FALSE).blk

\* C5's case: a later address of the bucket yields a later block whose
\* payload is smaller.
C5_Witness ==
    /\ Queried /\ Usable /\ ValidIP /\ ~ReservedOctet /\ YieldsBlock(NumOfLast)
    /\ \E q \in LaterInBucket :
          /\ YieldsBlock(getNum(eng, file, IPString(q), FALSE))
          /\ NumOfLast.blk < getNum(eng, file, IPString(q), FALSE).blk
          /\ Lt(getNum(eng, file, IPString(q), FALSE).num, NumOfLast.num)

\* GetCountryID has returned for an IPv4 address.
CountryIDReturned ==
    /\ Queried /\ last.op = "GetCountryID" /\ ValidIP
    /\ last.res.err # errPanic

\* C6 as stated: for a valid IPv4, GetCountryID returns 0 or an id whose
\* getISO is a non-empty string of exactly two characters.
C6_IdHasTwoLetterISO ==
    CountryIDReturned
    => \/ last.res.val = BigZero
       \/ Len(getISO(last.res.val)) = 2

\* C6 amended: for a valid IPv4, GetCountryID (when it returns) returns 0,
\* or an id in 1..254, whose getISO has exactly two characters, or 255,
\* whose getISO is "Unknown", or, on a country database with id_len >= 2
\* only, an id above 255, whose getISO is "".
C6_IdInTableOrBeyond ==
    CountryIDReturned
    => \/ last.res.val = BigZero
       \/ /\ Lt(last.res.val, Big(255))
          /\ Len(getISO(last.res.val)) = 2
       \/ /\ last.res.val = Big(255)
          /\ getISO(last.res.val) = "Unknown"
       \/ /\ Gt(last.res.val, Big(255))
          /\ eng.header.maxCity = 0 /\ eng.header.idLen >= 2
          /\ getISO(last.res.val) = ""

\* C6's case: GetCountryID returned the id 255, whose ISO is "Unknown".
C6_Witness ==
    /\ CountryIDReturned /\ last.res.err = Nil
    /\ last.res.val = Big(255)
    /\ getISO(last.res.val) = "Unknown"

\* C7: every query entry point (GetCountry, GetCountryID, GetCity,
\* GetCityFull, Get) returns a non-nil error for a string that is not an
\* IPv4 address, on city and on country databases.
C7_InvalidIPIsError ==
    (Queried /\ ~ValidIP) => last.res.err # Nil

\* C8: Get returns a result equal to nil, with a nil error, when the IP is
\* not found or belongs to a reserved range.
C8_GetNotFoundIsNil ==
    (Queried /\ last.op = "Get" /\ ValidIP /\ ReservedOctet)
    => /\ IsNilInterface(last.res.val)
       /\ last.res.err = Nil

\* The city record the last call's address leads to, as readData decodes
\* it on a working device.
CityOfNumRead ==
    readData(eng, file, NumOfLast.num, eng.header.maxCity, 2, FALSE)

\* The last call, on a city database and a working device, reached a city
\* record whose bytes end in the middle of a field.
TruncatedCityRecord ==
    /\ Queried /\ last.op \in {"GetCity", "GetCityFull", "GetCountryID"}
    /\ last.fail = {} /\ Usable /\ ValidIP
    /\ eng.header.maxCity > 0
    /\ NumOfLast.err = Nil /\ NumOfLast.num # BigZero
    /\ CityOfNumRead.err = errUnexpectedEOF

\* C9: a city record whose bytes end in the middle of a field never makes
\* GetCity, GetCityFull or GetCountryID fail: they return a populated
\* record (or id) or not-found, never an error.
C9_TruncatedRecordNoError ==
    TruncatedCityRecord => last.res.err = Nil

\* unpack has returned with the input exhausted before the format.
UnpackExhausted ==
    /\ pc = "done" /\ last.op = "unpack"
    /\ Len(last.data) > 0
    /\ MapLen(last.res.m) < Len(last.format)
    /\ last.res.err \in {Nil, errUnexpectedEOF}

\* C10: unpack returns the fields decoded so far and a nil error whenever
\* the input is exhausted before the format is, on a field boundary or in
\* the middle of a fixed-width field.
C10_ExhaustedIsNoError ==
    UnpackExhausted => last.res.err = Nil

\* The getters have been applied to a decoded value.
GotUint == pc = "done" /\ last.op = "getUint" /\ Has(last.m, "x")

\* A decoded value x as a number: whether it is a non-negative integer below
\* 2^32, and then that integer.
ExactUint(x) ==
    CASE x.k \in {"int8", "int16", "int32"} ->
            [fits |-> x.v >= 0, v |-> IF x.v >= 0 THEN Big(x.v) ELSE BigZero]
      [] x.k \in {"uint8", "uint16"} -> [fits |-> TRUE, v |-> Big(x.v)]
      [] x.k = "uint32" -> [fits |-> TRUE, v |-> x.v]
      [] x.k = "float64" /\ x.src = "dec" ->
            [fits |-> x.num >= 0 /\ x.scale = 0,
             v |-> IF x.num >= 0 THEN Big(x.num) ELSE BigZero]
      [] x.k = "float64" /\ x.src = "ieee" -> IeeeUint(x.bits)

\* C11: for every value kind unpack produces (int8, uint8, int16, uint16,
\* int32, uint32, float64), getUint8 and getUint32 return the value in the
\* requested width exactly when it fits losslessly (non-negative, in range,
\* no fractional part) and 0 otherwise: no negative value comes back as a
\* wrapped positive number and no fitting int16 / int32 value as 0.
C11_GettersCoerceLosslessly ==
    GotUint
    => /\ last.u8 = (IF ExactUint(last.m.x).fits /\ Le(ExactUint(last.m.x).v, Big(255))
                     THEN ToInt(ExactUint(last.m.x).v) ELSE 0)
       /\ last.u32 = (IF ExactUint(last.m.x).fits
                      THEN ExactUint(last.m.x).v ELSE BigZero)

\* parseHeader has returned.
HeaderParsed == pc = "done" /\ last.op = "parseHeader"

\* The big-endian number in the 2 / 4 bytes at offset i (from 0) of d.
U16At(d, i) == d[i + 1] * 256 + d[i + 2]
U32At(d, i) == <<U16At(d, i), U16At(d, i + 2)>>

\* The input parseHeader must reject.
HeaderRejected(d) ==
    \/ Len(d) < 40
    \/ <<d[1], d[2], d[3]>> # <<83, 120, 71>>
    \/ d[11] = 0
    \/ U16At(d, 11) = 0
    \/ U16At(d, 13) = 0
    \/ U32At(d, 15) = <<0, 0>>
    \/ d[20] = 0
    \/ d[20] > 4

\* C12: parseHeader fails if and only if the input is shorter than 40
\* bytes, its first three bytes are not 'SxG', one of byte_index_len,
\* main_index_len, range_blocks, db_items, id_len is zero, or id_len > 4;
\* otherwise it succeeds and every field is the big-endian decoding of its
\* header bytes.
C12_ParseHeaderValidates ==
    HeaderParsed
    => /\ last.res.ok <=> ~HeaderRejected(last.data)
       /\ last.res.ok =>
             last.res.h =
                [ version      |-> last.data[4],
                  timestamp    |-> U32At(last.data, 4),
                  dbType       |-> last.data[9],
                  charset      |-> last.data[10],
                  byteIndexLen |-> last.data[11],
                  mainIndexLen |-> U16At(last.data, 11),
                  rangeBlocks  |-> U16At(last.data, 13),
                  dbItems      |-> U32At(last.data, 15),
                  idLen        |-> last.data[20],
                  maxRegion    |-> U16At(last.data, 20),
                  maxCity      |-> U16At(last.data, 22),
                  regionSize   |-> U32At(last.data, 24),
                  citySize     |-> U32At(last.data, 28),
                  maxCountry   |-> U16At(last.data, 32),
                  countrySize  |-> U32At(last.data, 34),
                  packSize     |-> U16At(last.data, 38) ]

\* C12's case: the header whose bytes all differ is accepted, with fields
\* that differ from one another.
C12_Witness ==
    /\ HeaderParsed
    /\ last.data = DistinctHeader
    /\ last.res.ok
    /\ last.res.h.mainIndexLen = 109 * 256 + 110
    /\ last.res.h.idLen = 3

\* GetCountry has returned, on a working device, for an address of the
\* range 1.2.3.0..1.2.3.255 and a database of one block.
SingleBlockQueried ==
    /\ Queried /\ last.op = "GetCountry"
    /\ last.fail = {} /\ Usable /\ ValidIP
    /\ eng.header.dbItems = BigOne /\ eng.header.maxCity = 0
    /\ SubSeq(ip2long(last.ip).ip, 1, 3) = <<1, 2, 3>>

PlainCityQueried ==
    /\ Queried /\ last.op \in {"GetCity", "GetCityFull"}
    /\ last.fail = {} /\ Usable /\ ValidIP
    /\ eng.header.maxCity > 0
    /\ NumOfLast.err = Nil /\ NumOfLast.num # BigZero
    /\ Len(CityOfNumRead.raw) > 0
    /\ Has(CityOfNumRead.m, "region_seek")
    /\ getUint32(CityOfNumRead.m, "region_seek") = BigZero
    /\ Has(CityOfNumRead.m, "country_id")
    /\ getUint8(CityOfNumRead.m, "country_id") = 0

\* C14: for any non-empty city record whose country_id is 0 and whose
\* region_seek is 0, GetCity and GetCityFull return a LocationInfo with City
\* populated, Region nil and Country nil, and no error.
C14_PlainCityOnly ==
    PlainCityQueried
    => /\ last.res.err = Nil
       /\ last.res.val # NilPtr
       /\ last.res.val.City # NilPtr
       /\ last.res.val.Region = NilPtr
       /\ last.res.val.Country = NilPtr

\* The same for the records that hold every field of the city format.
C14_CompleteRecords ==
    (PlainCityQueried /\ MapLen(CityOfNumRead.m) = Len(CityFormat))
    => /\ last.res.err = Nil
       /\ last.res.val # NilPtr
       /\ last.res.val.City # NilPtr
       /\ last.res.val.Region = NilPtr
       /\ last.res.val.Country = NilPtr

\* The engine as New returned it for this file in this (resident) mode.
FreshEngine ==
    New(file, IF eng.batchMode THEN ModeMemory + ModeBatch ELSE ModeMemory).s

\* C15: on one engine opened in resident (MEMORY) mode, in any interleaving
\* of concurrent queries every query returns the result it returns when run
\* alone on the engine: no result depends on the queries that ran before or
\* during it.
C15_ConcurrentAsAlone ==
    \A c \in Callers :
        pc[c] = "done"
        => last[c].res = QueryOf(last[c].op, FreshEngine, file, last[c].ip, {})

\* C15's case: a GetCityFull returned a record while another caller's query
\* for a different address was between its lookup and its record read.
C15_Witness ==
    /\ eng.memoryMode
    /\ pc[1] = "done" /\ last[1].op = "GetCityFull"
    /\ last[1].res.err = Nil /\ last[1].res.val # NilPtr
    /\ pc[2] = "num" /\ last[2].ip # last[1].ip
    /\ last[2].g.err = Nil /\ last[2].g.num # BigZero

\* ------------------------------------------------------------------------
\* C16: no query operation changes any field of the engine.  Across every
\* step in which Get, GetCountry, GetCountryID, GetCity, GetCityFull or
\* About returns, whether with a result, with not-found or with an error,
\* the engine (header, pack formats, offsets, mode flags, indexes, resident
\* buffers, file handle) is the same after the step as before it.
QueryReturns == pc = "idle" /\ pc' = "done" /\ last'.op \in QueryOps \cup {"About"}

C16_QueriesFrameEngine == [][QueryReturns => eng' = eng]_vars

\* A query on a file-mode engine has failed, and the handle is still open.
C16_Witness ==
    /\ Queried /\ last.op = "GetCity"
    /\ last.res.err # Nil
    /\ ~eng.memoryMode /\ eng.f = "open"
    /\ eng = New(file, IF eng.batchMode THEN ModeFile + ModeBatch ELSE ModeFile).s

\* ------------------------------------------------------------------------
\* C17: Close is idempotent.  After any Close the file handle is nil; every
\* Close after the first returns nil and leaves the engine as it was; on an
\* engine opened in memory mode every Close, the first included, returns nil
\* and leaves the engine as it was, and a query issued after a Close returns
\* what it returns on the engine as New built it.
Closed == pc = "done" /\ last.op = "Close"

CloseNoOp == last.res.err = Nil /\ eng = last.before

AsOpened == New(file, ModeMemory + (IF eng.batchMode THEN ModeBatch ELSE 0)).s

C17_CloseIdempotent ==
    /\ Closed => eng.f = "nil"
    /\ Closed /\ last.closes > 1 => CloseNoOp
    /\ Closed /\ eng.memoryMode => CloseNoOp
    /\ Queried /\ eng.memoryMode /\ last.closes > 0
          => last.res = QueryOf(last.op, AsOpened, file, last.ip, {})

\* The second Close of an engine opened in file mode has returned.
C17_Witness == Closed /\ last.closes = 2 /\ ~eng.memoryMode /\ last.res.err = Nil

\* ------------------------------------------------------------------------
\* C18: on a city database whose city format (index 2 of the pack formats)
\* is missing or empty, GetCity, GetCityFull and GetCountryID on an address
\* that resolves to a non-zero seek return a non-nil error.
NoCityFormat == eng.header.maxCity > 0 /\ ~HasFormat(eng, 2)

SeekFound ==
    /\ getNum(eng, file, last.ip, "db" \in last.fail).err = Nil
    /\ getNum(eng, file, last.ip, "db" \in last.fail).num # BigZero

C18_MissingCityFormatIsError ==
    Queried /\ last.op \in {"GetCity", "GetCityFull", "GetCountryID"}
            /\ NoCityFormat /\ SeekFound
    => last.res.err # Nil

\* The part of C18 that parseCity enforces: GetCity and GetCityFull.
C18_CityQueriesError ==
    Queried /\ last.op \in {"GetCity", "GetCityFull"} /\ NoCityFormat /\ SeekFound
    => last.res.err = "database is missing city pack format"

\* ------------------------------------------------------------------------
\* C19: decodeID returns the big-endian unsigned value of exactly id_len
\* payload bytes for id_len 1..4 (for id_len 3: b0 * 2^16 + b1 * 2^8 + b2),
\* and an error when the number of bytes differs from id_len.
IdDecoded == pc = "done" /\ last.op = "decodeID"

\* The unsigned value of the bytes b, most significant first.
RECURSIVE BigEndianValue(_)
BigEndianValue(b) ==
    IF Len(b) = 0 THEN BigZero
    ELSE Add(MulSmall(BigEndianValue(SubSeq(b, 1, Len(b) - 1)), 256), Big(b[Len(b)]))

C19_DecodeIDBigEndian ==
    IdDecoded =>
        /\ eng.header.idLen \in 1..4
        /\ IF Len(last.idBytes) = eng.header.idLen
           THEN /\ last.res.err = Nil
                /\ last.res.num = BigEndianValue(last.idBytes)
           ELSE last.res.err # Nil

\* Three payload bytes 01 80 FF decode to 0x0180FF.
C19_Witness ==
    /\ IdDecoded /\ eng.header.idLen = 3
    /\ last.idBytes = <<1, 128, 255>>
    /\ last.res.err = Nil
    /\ last.res.num = <<1, 128 * 256 + 255>>

\* ------------------------------------------------------------------------
\* C20: on a main index sorted ascending, searchIdx(ip, lo, hi) clamps hi to
\* main_index_len - 1, returns lo if lo is above the clamped hi, and
\* otherwise the smallest p of lo..hi whose entry is >= ip, or hi + 1 when
\* there is none; ranges wider than 8 (bisection, then the linear tail)
\* give what the plain linear scan gives.
IdxSearched == pc = "done" /\ last.op = "searchIdx"

\* The main index as the file holds it: entry p.
FileMainIndex(p) ==
    BigEndian32(Slice(file.body, eng.header.byteIndexLen * 4 + p * 4,
                      eng.header.byteIndexLen * 4 + p * 4 + 4))

MainIndexSorted ==
    \A p \in 0..(eng.header.mainIndexLen - 2) : Le(FileMainIndex(p), FileMainIndex(p + 1))

ClampedHi ==
    IF Ge(last.max, Big(eng.header.mainIndexLen))
    THEN eng.header.mainIndexLen - 1
    ELSE ToInt(last.max)

\* The positions of lo..hi whose entry is >= the address.
AtOrAbove ==
    {p \in last.min..ClampedHi : Ge(FileMainIndex(p), BigEndian32(last.ipBytes))}

LowerBound ==
    IF last.min > ClampedHi THEN last.min
    ELSE IF AtOrAbove = {} THEN ClampedHi + 1
    ELSE CHOOSE p \in AtOrAbove : \A q \in AtOrAbove : p <= q

C20_SearchIdxLowerBound ==
    IdxSearched /\ MainIndexSorted => last.res = Big(LowerBound)

\* A range wider than 8 of an index of 11 entries: the address of entry 8,
\* found by bisection and the linear tail.
C20_Witness ==
    /\ IdxSearched /\ MainIndexSorted
    /\ eng.header.mainIndexLen = 11
    /\ last.min = 0 /\ last.max = MaxUint32
    /\ last.ipBytes = <<11, 0, 0, 0>>
    /\ last.res = Big(8)

\* ------------------------------------------------------------------------
\* C21: for a slice of blocks sorted by their 3-byte address and a range
\* [min, max), searchDb returns the payload of the last block of the range
\* whose address is <= the IP's last three octets (the block before the
\* first one that is strictly greater), and 0 with no error when the
\* octets are below the range's first block; ranges wider than 8 blocks
\* give what a linear scan gives.
DbSearched == pc = "done" /\ last.op = "searchDb"

\* max as searchDb clamps it to the blocks of the slice.
SliceMax == IF last.max > Len(SlicePrefixes) THEN Len(SlicePrefixes) ELSE last.max

\* The blocks of the range (from 0) whose address is <= the suffix.
AtOrBelow ==
    {k \in last.min..(SliceMax - 1) :
        CompareFrom(Slice(last.ipBytes, 1, 4), SlicePrefixes[k + 1], 0) >= 0}

LastAtOrBelow == CHOOSE k \in AtOrBelow : \A j \in AtOrBelow : j <= k

C21_SearchDbLastAtOrBelow ==
    DbSearched /\ last.min < SliceMax
    => /\ last.res.err = Nil
       /\ last.res.num = IF AtOrBelow = {} THEN BigZero ELSE Big(LastAtOrBelow + 1)

\* The part of C21 that holds: when the range has a block at or below the
\* suffix, searchDb returns the payload of the last such block.
C21_FoundInRange ==
    DbSearched /\ last.min < SliceMax /\ AtOrBelow # {}
    => /\ last.res.err = Nil
       /\ last.res.num = Big(LastAtOrBelow + 1)
       /\ last.res.rel = LastAtOrBelow

\* ------------------------------------------------------------------------
\* C22: main-index narrowing never changes the answer.  In a database built
\* as the data model says, for every IP whose first-octet bucket holds more
\* than range_blocks blocks, getNum returns what the block search over the
\* whole bucket [min_block, max_block) returns.
LastBytes == ip2long(last.ip).ip

BucketMin == ByteIndexAt(eng, FirstOctet - 1)
BucketMax == ByteIndexAt(eng, FirstOctet)

Narrowed == Gt(U32Sub(BucketMax, BucketMin), Big(eng.header.rangeBlocks))

\* The block search over the whole bucket, on a working device.
WholeBucketNum ==
    GetNumWindow(eng, file, LastBytes,
                 WindowOfPart(eng, BucketMin, BucketMax, FALSE, BigZero), FALSE)

C22_NarrowingKeepsAnswer ==
    (Queried /\ Usable /\ ValidIP /\ ~ReservedOctet /\ Narrowed)
    => /\ NumOfLast.err = WholeBucketNum.err
       /\ NumOfLast.num = WholeBucketNum.num

\* ------------------------------------------------------------------------
\* C23: when the block range computed for a lookup is empty (search_min >=
\* search_max on entry to the block search) and search_min > 0, the lookup
\* returns the payload of block search_min - 1.
WindowOfLast == SearchWindow(eng, LastBytes)

LookedUp == Queried /\ Usable /\ ValidIP /\ ~ReservedOctet /\ WindowOfLast.err = Nil

EmptyOnEntry == Ge(WindowOfLast.entryMin, WindowOfLast.entryMax)

C23_EmptyRangeGivesBlockBefore ==
    (/\ LookedUp /\ EmptyOnEntry
     /\ Gt(WindowOfLast.entryMin, BigZero)
     /\ Le(WindowOfLast.entryMin, eng.header.dbItems))
    => /\ NumOfLast.err = Nil
       /\ NumOfLast.num = DbPayload(ToInt(WindowOfLast.entryMin) - 1)

\* ------------------------------------------------------------------------
\* C24: when the block range computed for a lookup starts at or past
\* db_items, the lookup returns the payload of the final block (db_items -
\* 1), in memory and in file mode, whatever the IP's last three octets.
StartsPastEnd == Ge(WindowOfLast.entryMin, eng.header.dbItems)

FinalBlock == ToInt(eng.header.dbItems) - 1

C24_PastEndGivesFinalBlock ==
    (LookedUp /\ StartsPastEnd)
    => /\ NumOfLast.err = Nil
       /\ NumOfLast.num = DbPayload(FinalBlock)

\* The part of C24 that holds: an IP whose last three octets are not below
\* the final block's address bytes gets the final block's payload.
C24_FinalBlockWhenNotBelow ==
    (/\ LookedUp /\ StartsPastEnd
     /\ CompareFrom(Slice(LastBytes, 1, 4), DbBlock(FinalBlock), 0) >= 0)
    => /\ NumOfLast.err = Nil
       /\ NumOfLast.num = DbPayload(FinalBlock)
       /\ NumOfLast.blk = FinalBlock

\* ------------------------------------------------------------------------
\* C25: when the first-octet bucket of an otherwise valid IP is empty
\* (max_block <= min_block), the lookup returns not-found (0, no error); it
\* never returns the payload of a block outside [min_block, max_block).
EmptyBucket == Ge(BucketMin, BucketMax)

C25_EmptyBucketNotFound ==
    (LookedUp /\ EmptyBucket)
    => /\ NumOfLast.err = Nil
       /\ NumOfLast.num = BigZero
       /\ NumOfLast.blk = -1

\* ------------------------------------------------------------------------
\* C26: the raw-byte and the pre-decoded indexes are interchangeable.  For
\* the same file and every IP, the byte-index range (min_block, max_block)
\* and the partition searchIdx gives are the same on the engine opened in
\* file mode (raw indexes) and on the one opened in file and batch mode
\* (decoded indexes), and getNum returns the same on both.
FileOnly == ~eng.memoryMode

\* The engine New builds for the same file with the other kind of indexes,
\* its file handle in the state of eng's.
OtherIndexes ==
    [New(file, IF eng.batchMode THEN ModeFile ELSE ModeFile + ModeBatch).s
        EXCEPT !.f = eng.f]

C26_RawAndDecodedIndexesAgree ==
    (Queried /\ FileOnly /\ ValidIP /\ ~ReservedOctet)
    => /\ ByteIndexAt(OtherIndexes, FirstOctet - 1) = BucketMin
       /\ ByteIndexAt(OtherIndexes, FirstOctet) = BucketMax
       /\ SearchWindow(OtherIndexes, LastBytes) = WindowOfLast
       /\ getNum(OtherIndexes, file, last.ip, "db" \in last.fail)
             = getNum(eng, file, last.ip, "db" \in last.fail)

\* C26's case: a lookup through the main index, on raw indexes, that found
\* a block in a partition other than 0.
C26_Witness ==
    /\ Queried /\ FileOnly /\ ~eng.batchMode /\ eng.f = "open"
    /\ ValidIP /\ ~ReservedOctet /\ last.fail = {}
    /\ Narrowed /\ WindowOfLast.part # BigZero
    /\ NumOfLast.err = Nil /\ NumOfLast.num # BigZero
    /\ OtherIndexes.batchMode /\ OtherIndexes.byteIndexStr = <<>>

\* ------------------------------------------------------------------------
\* C27: in parseCity the country id starts as the city record's country_id
\* and is replaced by the country record's id exactly when a country record
\* was read through country_seek and has an id field; whenever the
\* resulting id is > 0 the Country returned is non-nil with that id and
\* iso = getISO(id); and when no country record was read (no seek, format
\* missing, read failed or empty) the Country carries only the id and the
\* iso, with zero lat/lon and empty names.
CityAnswered ==
    /\ Queried /\ last.op \in {"GetCity", "GetCityFull"}
    /\ last.res.err = Nil /\ last.res.val # NilPtr

\* The country seek parseCity got from the region of the answer.
CountrySeekOfLast ==
    IF last.res.val.Region = NilPtr THEN BigZero
    ELSE last.res.val.Region.countrySeek

\* What reading the country record of the answer gave: nothing when there
\* is no seek, no country size or no country format.
CountryReadOfLast ==
    IF /\ Gt(CountrySeekOfLast, BigZero) /\ eng.header.maxCountry > 0
       /\ HasFormat(eng, 0)
    THEN readData(eng, file, CountrySeekOfLast, eng.header.maxCountry, 0,
                  "country" \in last.fail)
    ELSE EmptyRead({})

\* A country record was read: the read did not fail and gave fields.
CountryRecordRead ==
    CountryReadOfLast.err = Nil /\ MapLen(CountryReadOfLast.m) > 0

ClaimedCountryID ==
    IF CountryRecordRead /\ Has(CountryReadOfLast.m, "id")
    THEN getUint8(CountryReadOfLast.m, "id")
    ELSE last.res.val.City.countryID

MinimalCountry(id) ==
    [ nil |-> FALSE, ID |-> id, ISO |-> getISO(Big(id)),
      Lat |-> FloatZero, Lon |-> FloatZero, NameRU |-> <<>>, NameEN |-> <<>> ]

C27_CountryIDAndFallback ==
    (CityAnswered /\ ClaimedCountryID > 0)
    => /\ last.res.val.Country # NilPtr
       /\ last.res.val.Country.ID = ClaimedCountryID
       /\ last.res.val.Country.ISO = getISO(Big(ClaimedCountryID))
       /\ ~CountryRecordRead
          => last.res.val.Country = MinimalCountry(ClaimedCountryID)

\* The part of C27 that holds: the same with "a country record was read"
\* taken as "the read gave fields", whether or not it also gave an error.
CountryFieldsRead == MapLen(CountryReadOfLast.m) > 0

CountryIDFromFields ==
    IF CountryFieldsRead /\ Has(CountryReadOfLast.m, "id")
    THEN getUint8(CountryReadOfLast.m, "id")
    ELSE last.res.val.City.countryID

C27_CountryIDFromFieldsRead ==
    (CityAnswered /\ CountryIDFromFields > 0)
    => /\ last.res.val.Country # NilPtr
       /\ last.res.val.Country.ID = CountryIDFromFields
       /\ last.res.val.Country.ISO = getISO(Big(CountryIDFromFields))
       /\ ~CountryFieldsRead
          => last.res.val.Country = MinimalCountry(CountryIDFromFields)

\* ------------------------------------------------------------------------
\* C28: a failure while reading or unpacking the region record never fails
\* GetCityFull.  Whenever the city record was read and the region read
\* returns an error (bad seek, I/O error, truncated or malformed record),
\* GetCityFull returns a nil error and the LocationInfo with the City, the
\* Country of the city's own country_id, and a nil Region: what GetCity
\* returns for the same IP.
FullAsked == Queried /\ last.op = "GetCityFull"

CityWasRead == CityOfLast.err = Nil /\ CityOfLast.val # NilPtr

\* What reading the region record of the city gave: nothing when the city
\* has no region seek or the database no region size or format.
RegionReadOfLast ==
    IF /\ Gt(CityOfLast.val.City.regionSeek, BigZero) /\ eng.header.maxRegion > 0
       /\ HasFormat(eng, 1)
    THEN readData(eng, file, CityOfLast.val.City.regionSeek, eng.header.maxRegion, 1,
                  "region" \in last.fail)
    ELSE EmptyRead({})

RegionReadFailed == CityWasRead /\ RegionReadOfLast.err # Nil

C28_RegionErrorNotFatal ==
    (FullAsked /\ RegionReadFailed)
    => /\ last.res.err = Nil
       /\ last.res.val # NilPtr
       /\ last.res.val.City = CityOfLast.val.City
       /\ last.res.val.Region = NilPtr
       /\ last.res.val.Country = CityOfLast.val.Country

\* C28's case: GetCityFull answered with a city and a country although the
\* region read failed.
C28_Witness ==
    /\ FullAsked /\ RegionReadFailed
    /\ last.res.err = Nil
    /\ last.res.val.City.ID # BigZero
    /\ last.res.val.Country # NilPtr
    /\ last.res.val.Region = NilPtr

\* The two kinds of failed region read of the model: the device fails the
\* read; the region seek lies beyond the resident regions section.
C28_WitnessDevice == C28_Witness /\ "region" \in last.fail /\ ~eng.memoryMode

C28_WitnessBadSeek == C28_Witness /\ last.fail = {} /\ eng.memoryMode

\* ------------------------------------------------------------------------
\* C29: for every header-valid database the section offsets computed at
\* open are exact integers: regions_begin = db_begin + db_items * (3 +
\* id_len) and cities_begin = regions_begin + region_size, with no 32-bit
\* wrap-around of db_items * block_size for any uint32 db_items; the same
\* holds for the size of the resident DB buffer.
Opened == pc = "done" /\ last.op = "New" /\ last.ok

\* db_items * (3 + id_len) as an integer.
DbSectionSize == MulSmall(eng.header.dbItems, dbBlockLenOffset + eng.header.idLen)

C29_ExactSectionOffsets ==
    Opened
    => /\ eng.regionsBegin = Add(eng.dbBegin, DbSectionSize)
       /\ eng.citiesBegin = Add(eng.regionsBegin, eng.header.regionSize)
       /\ eng.memoryMode => Big(Len(eng.dbData)) = DbSectionSize

\* The part of C29 that holds: the offsets and the buffer size are exact
\* whenever db_items * (3 + id_len) is below 2^32.
C29_ExactBelowWrap ==
    (Opened /\ Lt(DbSectionSize, <<Limb, 0>>))
    => /\ eng.regionsBegin = Add(eng.dbBegin, DbSectionSize)
       /\ eng.citiesBegin = Add(eng.regionsBegin, eng.header.regionSize)
       /\ eng.memoryMode => Big(Len(eng.dbData)) = DbSectionSize

\* ------------------------------------------------------------------------
\* C30: for every header-valid database, whatever its byte index and main
\* index hold, at the point where getNum reads or slices DB blocks the
\* range satisfies 0 <= search_min < search_max <= db_items: the block
\* count search_max - search_min of file mode never underflows and both
\* modes read only blocks that exist.
GotWindow ==
    /\ pc = "done" /\ last.op = "getNum"
    /\ ~IsReserved(eng, ip2long(last.ip).ip[1])
    /\ SearchWindow(eng, ip2long(last.ip).ip).err = Nil

WindowOfGetNum == SearchWindow(eng, ip2long(last.ip).ip)

WindowWithinDb ==
    /\ Lt(WindowOfGetNum.searchMin, WindowOfGetNum.searchMax)
    /\ Le(WindowOfGetNum.searchMax, eng.header.dbItems)
    /\ U32Sub(WindowOfGetNum.searchMax, WindowOfGetNum.searchMin)
          = Sub(WindowOfGetNum.searchMax, WindowOfGetNum.searchMin)

C30_WindowWithinDb == GotWindow => WindowWithinDb

\* The part of C30 that holds: the range is within the DB section unless
\* the range the final checks start from is not empty and starts at or
\* beyond db_items.
StartsBeyondDb ==
    /\ Lt(WindowOfGetNum.entryMin, WindowOfGetNum.entryMax)
    /\ Ge(WindowOfGetNum.entryMin, eng.header.dbItems)

C30_WindowWithinDbUnlessBeyond == (GotWindow /\ ~StartsBeyondDb) => WindowWithinDb

\* On the databases whose indexes are as built, the range of every lookup
\* is within the DB section.
C30_WindowWithinDbOfBuiltIndexes ==
    LookedUp
    => /\ Lt(WindowOfLast.searchMin, WindowOfLast.searchMax)
       /\ Le(WindowOfLast.searchMax, eng.header.dbItems)

====
